---- MODULE Spec2Model ----
(***************************************************************************)
(* Pool processor: reward pools (alarms, focus locks) are fetched from     *)
(* storage, validated, rewarded, committed to a merkle root, published on  *)
(* the ledger and only then persisted.                                      *)
(*                                                                          *)
(* Amounts are BigInt in the source.  The model keeps them as integers and  *)
(* scales the widths (HalfBits stands for the 128-bit half of a u256,       *)
(* UnitFactor for the 1e6 smallest-unit factor) so that every case fits     *)
(* TLC's integers.  Strings that the code inspects (addresses, hex roots)   *)
(* are sequences of one-character strings.                                  *)
(***************************************************************************)
EXTENDS Integers, Sequences, FiniteSets, TLC

VARIABLES
    alarms,                 \* table alarms (set of rows)
    focus_locks,            \* table focus_locks (set of rows)
    wallets,                \* table wallets (set of rows)
    user_claim_data,        \* table user_claim_data (sequence of inserted rows)
    user_claim_data_locks,  \* table user_claim_data_locks (sequence of inserted rows)
    env,                    \* process.env: required options valid, focus options present
    chain,                  \* ledger: contract storage, account nonce, transactions
    run,                    \* the pool run in progress (locals of process*Pool)
    trace,                  \* history of the current run: phases and external calls
    runs,                   \* number of pool runs started so far
    batch,                  \* the batch driver or cron entry point in progress
    peer                    \* a second invocation publishing with the same account

vars == <<alarms, focus_locks, wallets, user_claim_data, user_claim_data_locks,
          env, chain, run, trace, runs, batch, peer>>

----------------------------------------------------------------------------
(* Bounds of the model *)

MaxUsers == 3
MaxRuns == 2
MaxLeaves == 4
HalfBits == 4
UnitFactor == 10
HashMod == 251

(* Program constants *)

TIME_BUFFER_SECONDS == 1800
PROTOCOL_FEE_PERCENT == 10
PERCENT_BASE == 100
SLASH_20_PERCENT == 80
SLASH_50_PERCENT == 50
SLASH_100_PERCENT == 0
EXPIRY_DURATION == 172800
SECONDS_PER_DAY == 86400
SECONDS_PER_PERIOD == 43200
PROCESSING_DELAY_MS == 3000

U128Limit == 2 ^ HalfBits
U256Limit == U128Limit * U128Limit

----------------------------------------------------------------------------
(* Sequence helpers *)

RECURSIVE SumSeq(_)
SumSeq(s) == IF s = <<>> THEN 0 ELSE Head(s) + SumSeq(Tail(s))

\* the first of a set of matching indices, 0 when there is none (Array.find)
FindIndex(matches) ==
    IF matches = {} THEN 0
    ELSE CHOOSE i \in matches : \A j \in matches : i <= j

\* an order with the newest row first
RECURSIVE OrderBy_Descending(_, _)
OrderBy_Descending(rows, col) ==
    IF rows = {} THEN <<>>
    ELSE LET first == CHOOSE r \in rows :
                        \A q \in rows : col[r] > col[q] \/ (col[r] = col[q] /\ r.id <= q.id)
         IN <<first>> \o OrderBy_Descending(rows \ {first}, col)

\* the rows of a table ordered by an integer column (.order(column)); col maps rows to the column
RECURSIVE OrderBy(_, _)
OrderBy(rows, col) ==
    IF rows = {} THEN <<>>
    ELSE LET first == CHOOSE r \in rows :
                        \A q \in rows : col[r] < col[q] \/ (col[r] = col[q] /\ r.id <= q.id)
         IN <<first>> \o OrderBy(rows \ {first}, col)

----------------------------------------------------------------------------
(* Hex strings *)

HexDigits == <<"0", "1", "2", "3", "4", "5", "6", "7", "8", "9",
               "a", "b", "c", "d", "e", "f">>
UpperDigits == <<"0", "1", "2", "3", "4", "5", "6", "7", "8", "9",
                 "A", "B", "C", "D", "E", "F">>

\* String.prototype.toLowerCase on the characters a hex string can hold
LowerChar(c) ==
    IF \E i \in 11..16 : UpperDigits[i] = c
    THEN HexDigits[CHOOSE i \in 11..16 : UpperDigits[i] = c]
    ELSE IF c = "X" THEN "x" ELSE c

ToLowerCase(s) == [i \in 1..Len(s) |-> LowerChar(s[i])]

UpperChar(c) ==
    IF \E i \in 11..16 : HexDigits[i] = c
    THEN UpperDigits[CHOOSE i \in 11..16 : HexDigits[i] = c]
    ELSE c

\* BigInt.prototype.toString(16): lowercase digits, no leading zero, "0" for 0
RECURSIVE ToString16(_)
ToString16(n) ==
    IF n < 16 THEN <<HexDigits[n + 1]>>
    ELSE ToString16(n \div 16) \o <<HexDigits[(n % 16) + 1]>>

StartsWith0x(s) == Len(s) >= 2 /\ s[1] = "0" /\ s[2] = "x"

DigitValue(c) == (CHOOSE i \in 1..16 : HexDigits[i] = c \/ UpperDigits[i] = c) - 1

\* BigInt("0x...") of a hex string
RECURSIVE HexDigitsToInt(_, _)
HexDigitsToInt(s, acc) ==
    IF s = <<>> THEN acc
    ELSE HexDigitsToInt(Tail(s), acc * 16 + DigitValue(Head(s)))

BigIntOfHex(s) == HexDigitsToInt(SubSeq(s, 3, Len(s)), 0)

\* a value crossing the RPC boundary is a hex string or a bigint
HexStr(s) == [kind |-> "string", str |-> s, num |-> 0]
BigNum(n) == [kind |-> "bigint", str |-> <<>>, num |-> n]

\* the number such a value stands for
ValueOf(v) == IF v.kind = "string" THEN BigIntOfHex(v.str) ELSE v.num

toHexString(val) ==
    IF val.kind = "string" /\ StartsWith0x(val.str)
    THEN ToLowerCase(val.str)
    ELSE <<"0", "x">> \o ToString16(val.num)

normalizeHex(hex) ==
    IF hex.kind = "string"
    THEN ToLowerCase(hex.str)
    ELSE <<"0", "x">> \o ToLowerCase(ToString16(hex.num))

----------------------------------------------------------------------------
(* The ledger's hash primitive (starknet hash.computePoseidonHashOnElements) *)
(* returns a hex string of a field element; the model's field is HashMod.    *)

RECURSIVE PoseidonFold(_, _)
PoseidonFold(elems, acc) ==
    IF elems = <<>> THEN acc
    ELSE PoseidonFold(Tail(elems), (acc * 31 + Head(elems) + 7) % HashMod)

computePoseidonHashOnElements(elems) ==
    <<"0", "x">> \o ToString16(PoseidonFold(elems, Len(elems) + 1))

----------------------------------------------------------------------------
(* Pool keys and time *)

Days == {1}
Periods == {0, 1}

\* the periods of a 6 hour scheme
calculatePoolInfo_SixHours(timestamp) ==
    [day |-> timestamp \div SECONDS_PER_DAY,
     period |-> (timestamp % SECONDS_PER_DAY) \div (SECONDS_PER_PERIOD \div 2)]

calculatePoolInfo(timestamp) ==
    [day |-> timestamp \div SECONDS_PER_DAY,
     period |-> (timestamp % SECONDS_PER_DAY) \div SECONDS_PER_PERIOD]

calculateTimeRange(day, period) ==
    LET dayStart == day * SECONDS_PER_DAY
        periodStart == dayStart + period * SECONDS_PER_PERIOD
        periodEnd == periodStart + SECONDS_PER_PERIOD
    IN [periodStart |-> periodStart, periodEnd |-> periodEnd]

\* a clock read in milliseconds where seconds are meant
NowSeconds_Millis(clockMs) == clockMs

\* Math.floor(Date.now() / 1000) for a clock in milliseconds
NowSeconds(clockMs) == clockMs \div 1000

\* an expiry of 24 hours
calculateExpiry_OneDay(clockMs) == NowSeconds(clockMs) + SECONDS_PER_DAY

calculateExpiry(clockMs) == NowSeconds(clockMs) + EXPIRY_DURATION

----------------------------------------------------------------------------
(* Storage contents.  Row i of either table belongs to the pool (day 1,     *)
(* period 0), except the last row of the two_pools fixture; the last row    *)
(* carries the variant of the fixture.                                      *)

Variants == {"plain", "noprefix", "emptyaddr", "undeployed", "hugestake",
             "shared_owner", "no_chain_id", "two_pools"}

\* the period of row i: the last row of the two_pools fixture lies in period 1
PeriodOf(i, n, variant) == IF i = n /\ variant = "two_pools" THEN 1 ELSE 0

NULL == -1

GoodAddress(i) == <<"0", "x", HexDigits[10 + i]>>

DbStake(i, n, variant) ==
    IF i = n /\ variant = "hugestake" THEN (U256Limit \div UnitFactor) + 1
    ELSE ((i - 1) % 2) + 1

SnoozeOf(i) == CASE i % 4 = 1 -> 0 [] i % 4 = 2 -> 1 [] i % 4 = 3 -> 3 [] OTHER -> 2

OwnerOf(i, n, variant) == IF i = n /\ variant = "shared_owner" THEN 1 ELSE i

ChainIdOf(i, n, variant) == IF i = n /\ variant = "no_chain_id" THEN NULL ELSE i

AlarmRows(n, variant) ==
    { [id |-> i, user_id |-> OwnerOf(i, n, variant),
       wakeup_time |-> calculateTimeRange(1, PeriodOf(i, n, variant)).periodStart + i,
       stake_amount |-> DbStake(i, n, variant),
       snooze_count |-> SnoozeOf(i),
       alarm_id |-> ChainIdOf(i, n, variant),
       deleted |-> FALSE, claim_ready |-> FALSE, has_claimed |-> FALSE] : i \in 1..n }

FocusRows(n, variant) ==
    { [id |-> i, user_id |-> OwnerOf(i, n, variant),
       day |-> 1, period |-> PeriodOf(i, n, variant),
       start_time |-> calculateTimeRange(1, PeriodOf(i, n, variant)).periodStart + i,
       duration_minutes |-> ((i - 1) % 2) + 1,
       stake_amount |-> DbStake(i, n, variant),
       completion_status |-> (i % 2 = 1),
       lock_id |-> ChainIdOf(i, n, variant),
       claim_ready |-> FALSE, has_claimed |-> FALSE] : i \in 1..n }

WalletRows(n, variant) ==
    { [user_id |-> i,
       deployed_address |->
           IF i = n /\ variant = "noprefix" THEN <<HexDigits[10 + i]>>
           ELSE IF i = n /\ variant = "emptyaddr" THEN <<>>
           ELSE GoodAddress(i),
       is_deployed |-> ~(i = n /\ variant = "undeployed")] : i \in 1..n }

----------------------------------------------------------------------------
(* Storage reads (core/database) *)

\* walletMap: user_id -> deployed_address, of the deployed wallets with a non-empty address
WalletMapDomain(userIds) ==
    { w.user_id : w \in { w \in wallets : w.user_id \in userIds /\ w.is_deployed
                                          /\ w.deployed_address # <<>> } }

WalletMapGet(user_id) ==
    (CHOOSE w \in wallets : w.user_id = user_id /\ w.is_deployed
                            /\ w.deployed_address # <<>>).deployed_address

\* BigInt(Math.floor(stake * 1e6)): the smallest-unit amount of a NUMERIC column
ToSmallestUnit(stake) == stake * UnitFactor

fetchAlarmsFromPool(day, period) ==
    LET range == calculateTimeRange(day, period)
        rows == { a \in alarms : /\ a.wakeup_time >= range.periodStart
                                 /\ a.wakeup_time < range.periodEnd
                                 /\ a.stake_amount > 0
                                 /\ a.alarm_id # NULL
                                 /\ a.deleted = FALSE }
        ordered == OrderBy(rows, [a \in rows |-> a.wakeup_time])
        userIds == { a.user_id : a \in rows }
        withWallet == SelectSeq(ordered, LAMBDA a : a.user_id \in WalletMapDomain(userIds))
    IN [i \in 1..Len(withWallet) |->
          LET record == withWallet[i]
          IN [address |-> WalletMapGet(record.user_id),
              wake_up_time |-> record.wakeup_time,
              stake_amount |-> ToSmallestUnit(record.stake_amount),
              snooze_count |-> record.snooze_count,
              alarm_uuid |-> record.id,
              alarm_id |-> record.alarm_id]]

fetchFocusLocksFromPool(day, period) ==
    IF period >= 2 THEN <<>>
    ELSE
    LET rows == { l \in focus_locks : /\ l.day = day
                                      /\ l.period = period
                                      /\ l.stake_amount > 0
                                      /\ l.lock_id # NULL }
        ordered == OrderBy(rows, [l \in rows |-> l.start_time])
        userIds == { l.user_id : l \in rows }
        withWallet == SelectSeq(ordered, LAMBDA l : l.user_id \in WalletMapDomain(userIds))
    IN [i \in 1..Len(withWallet) |->
          LET record == withWallet[i]
          IN [address |-> WalletMapGet(record.user_id),
              session_id |-> record.lock_id,
              start_time |-> record.start_time,
              duration |-> record.duration_minutes * 60,
              stake_amount |-> ToSmallestUnit(record.stake_amount),
              completion_status |-> record.completion_status,
              focus_lock_id |-> record.id]]

----------------------------------------------------------------------------
(* Reward calculator (core/calculator) *)

\* a table whose second penalty returns what the first one does
calculateStakeReturn_SamePenalty(stakeAmount, slashCount) ==
    CASE slashCount = 0 -> stakeAmount
      [] slashCount = 1 -> (stakeAmount * SLASH_20_PERCENT) \div PERCENT_BASE
      [] slashCount = 2 -> (stakeAmount * SLASH_20_PERCENT) \div PERCENT_BASE
      [] OTHER -> SLASH_100_PERCENT

calculateStakeReturn(stakeAmount, slashCount) ==
    CASE slashCount = 0 -> stakeAmount
      [] slashCount = 1 -> (stakeAmount * SLASH_20_PERCENT) \div PERCENT_BASE
      [] slashCount = 2 -> (stakeAmount * SLASH_50_PERCENT) \div PERCENT_BASE
      [] OTHER -> SLASH_100_PERCENT

\* snooze_count ?? 0: a missing count is no penalty
OrZero(count) == IF count = NULL THEN 0 ELSE count

\* a total that reads the count as stored, a missing one included
calculateTotalSlashed_MissingIsPenalty(users) ==
    SumSeq([i \in 1..Len(users) |->
              users[i].stake_amount
                - calculateStakeReturn(users[i].stake_amount, users[i].snooze_count)])

calculateTotalSlashed(users) ==
    SumSeq([i \in 1..Len(users) |->
              users[i].stake_amount
                - calculateStakeReturn(users[i].stake_amount,
                                       OrZero(users[i].snooze_count))])

\* a distribution of the whole pool, the fee included
calculateRewards_NoFee(users, totalPoolReward) ==
    LET winners == SelectSeq(users, LAMBDA u : OrZero(u.snooze_count) = 0)
        totalWinnerStake == SumSeq([i \in 1..Len(winners) |-> winners[i].stake_amount])
    IN IF Len(winners) = 0 \/ totalPoolReward = 0 THEN <<>>
       ELSE IF totalWinnerStake = 0 THEN <<>>
       ELSE [i \in 1..Len(winners) |->
               [address |-> winners[i].address,
                reward_amount |->
                    (totalPoolReward * winners[i].stake_amount) \div totalWinnerStake]]

calculateRewards(users, totalPoolReward) ==
    LET winners == SelectSeq(users, LAMBDA u : OrZero(u.snooze_count) = 0)
        totalWinnerStake == SumSeq([i \in 1..Len(winners) |-> winners[i].stake_amount])
        protocolFee == (totalPoolReward * PROTOCOL_FEE_PERCENT) \div PERCENT_BASE
        rewardsForWinners == totalPoolReward - protocolFee
    IN IF Len(winners) = 0 \/ totalPoolReward = 0 THEN <<>>
       ELSE IF totalWinnerStake = 0 THEN <<>>
       ELSE [i \in 1..Len(winners) |->
               [address |-> winners[i].address,
                reward_amount |->
                    (rewardsForWinners * winners[i].stake_amount) \div totalWinnerStake]]

\* a validation that forgets the prefix of the address
InvalidUser_NoPrefixCheck(user) ==
    \/ user.address = <<>>
    \/ user.stake_amount < 0
    \/ user.stake_amount >= U256Limit

\* the users validatePoolUsers throws on
InvalidUser(user) ==
    \/ user.address = <<>>
    \/ ~StartsWith0x(user.address)
    \/ user.stake_amount < 0
    \/ user.stake_amount >= U256Limit

validatePoolUsers(users) == \A i \in 1..Len(users) : ~InvalidUser(users[i])

toU256Parts(val) == [low |-> val % U128Limit, high |-> val \div U128Limit]

calculateFocusUserWeight(stakeAmount, duration) == stakeAmount * duration

calculateFocusTotalSlashed(users) ==
    SumSeq([i \in 1..Len(users) |->
              IF ~users[i].completion_status THEN users[i].stake_amount ELSE 0])

\* a distribution that hands the whole pool to every winning lock
calculateFocusRewards_WholePoolEach(users, totalPoolReward) ==
    LET winners == SelectSeq(users, LAMBDA u : u.completion_status = TRUE)
    IN [i \in 1..Len(winners) |->
          [address |-> winners[i].address,
           session_id |-> winners[i].session_id,
           reward_amount |-> totalPoolReward,
           weight |-> calculateFocusUserWeight(winners[i].stake_amount, winners[i].duration),
           stake_amount |-> winners[i].stake_amount,
           duration |-> winners[i].duration]]

\* a distribution that weighs every lock as the first winning lock of its address
calculateFocusRewards_ByAddress(users, totalPoolReward) ==
    LET winners == SelectSeq(users, LAMBDA u : u.completion_status = TRUE)
        first(i) == CHOOSE j \in 1..i :
                        /\ winners[j].address = winners[i].address
                        /\ \A k \in 1..(j - 1) : winners[k].address # winners[i].address
        weight(w) == calculateFocusUserWeight(w.stake_amount, w.duration)
        totalWinnerWeight == SumSeq([i \in 1..Len(winners) |-> weight(winners[i])])
        protocolFee == (totalPoolReward * PROTOCOL_FEE_PERCENT) \div PERCENT_BASE
        rewardsForWinners == totalPoolReward - protocolFee
    IN IF Len(winners) = 0 \/ totalPoolReward = 0 THEN <<>>
       ELSE IF totalWinnerWeight = 0 THEN <<>>
       ELSE [i \in 1..Len(winners) |->
               [address |-> winners[i].address,
                session_id |-> winners[i].session_id,
                reward_amount |->
                    (rewardsForWinners * weight(winners[first(i)])) \div totalWinnerWeight,
                weight |-> weight(winners[first(i)]),
                stake_amount |-> winners[i].stake_amount,
                duration |-> winners[i].duration]]

calculateFocusRewards(users, totalPoolReward) ==
    LET winners == SelectSeq(users, LAMBDA u : u.completion_status = TRUE)
        weight(w) == calculateFocusUserWeight(w.stake_amount, w.duration)
        totalWinnerWeight == SumSeq([i \in 1..Len(winners) |-> weight(winners[i])])
        protocolFee == (totalPoolReward * PROTOCOL_FEE_PERCENT) \div PERCENT_BASE
        rewardsForWinners == totalPoolReward - protocolFee
    IN IF Len(winners) = 0 \/ totalPoolReward = 0 THEN <<>>
       ELSE IF totalWinnerWeight = 0 THEN <<>>
       ELSE [i \in 1..Len(winners) |->
               [address |-> winners[i].address,
                session_id |-> winners[i].session_id,
                reward_amount |->
                    (rewardsForWinners * weight(winners[i])) \div totalWinnerWeight,
                weight |-> weight(winners[i]),
                stake_amount |-> winners[i].stake_amount,
                duration |-> winners[i].duration]]

createMerkleLeaf(userAddress, rewardAmount) ==
    toHexString(HexStr(computePoseidonHashOnElements(
        <<BigIntOfHex(userAddress), rewardAmount % U128Limit, rewardAmount \div U128Limit>>)))

createFocusMerkleLeaf(userAddress, sessionId, rewardAmount) ==
    toHexString(HexStr(computePoseidonHashOnElements(
        <<BigIntOfHex(userAddress), sessionId,
          rewardAmount % U128Limit, rewardAmount \div U128Limit>>)))

----------------------------------------------------------------------------
(* Merkle commitment (core/calculator) *)

\* the leading bytes "no" of the sentinel 0x6e6f5f726577617264734040 ("no_rewards@@")
NoRewardsSentinel == 28271

\* proofs[key].push(h) for every key of the list, in order
RECURSIVE PushAll(_, _, _)
PushAll(proofs, keys, h) ==
    IF keys = <<>> THEN proofs
    ELSE PushAll([proofs EXCEPT ![Head(keys)] = Append(@, h)], Tail(keys), h)

InSeq(x, s) == \E i \in 1..Len(s) : s[i] = x

\* combinedLeafKeys: the keys of right not yet among the combined ones are pushed
RECURSIVE CombineKeys(_, _)
CombineKeys(combined, keys) ==
    IF keys = <<>> THEN combined
    ELSE CombineKeys(IF InSeq(Head(keys), combined) THEN combined
                     ELSE Append(combined, Head(keys)), Tail(keys))

\* a parent hash over the two children in their order in the level
SortedPairHash_InLevelOrder(a, b) == computePoseidonHashOnElements(<<a, b>>)

SortedPairHash(a, b) ==
    IF a < b THEN computePoseidonHashOnElements(<<a, b>>)
    ELSE computePoseidonHashOnElements(<<b, a>>)

\* a pass over a level that leaves the proofs alone when a node is paired with itself
RECURSIVE MerkleLevel_SilentSelfPairing(_, _, _, _)
MerkleLevel_SilentSelfPairing(currentLevel, i, nextLevel, proofs) ==
    IF i > Len(currentLevel) THEN [level |-> nextLevel, proofs |-> proofs]
    ELSE LET left == currentLevel[i]
             paired == i + 1 <= Len(currentLevel)
             right == IF paired THEN currentLevel[i + 1] ELSE left
             p2 == IF paired
                   THEN PushAll(PushAll(proofs, left.addresses,
                                        toHexString(BigNum(right.hashBig))),
                                right.addresses, toHexString(BigNum(left.hashBig)))
                   ELSE proofs
             parent == [addresses |-> left.addresses
                                        \o (IF paired THEN right.addresses ELSE <<>>),
                        hashBig |-> BigIntOfHex(SortedPairHash(left.hashBig, right.hashBig))]
         IN MerkleLevel_SilentSelfPairing(currentLevel, i + 2, Append(nextLevel, parent), p2)

\* one pass of the for-loop over a level of buildMerkleTree
RECURSIVE MerkleLevel(_, _, _, _)
MerkleLevel(currentLevel, i, nextLevel, proofs) ==
    IF i > Len(currentLevel) THEN [level |-> nextLevel, proofs |-> proofs]
    ELSE LET left == currentLevel[i]
             paired == i + 1 <= Len(currentLevel)
             right == IF paired THEN currentLevel[i + 1] ELSE left
             p1 == PushAll(proofs, left.addresses, toHexString(BigNum(right.hashBig)))
             p2 == IF paired
                   THEN PushAll(p1, right.addresses, toHexString(BigNum(left.hashBig)))
                   ELSE p1
             parent == [addresses |-> left.addresses
                                        \o (IF paired THEN right.addresses ELSE <<>>),
                        hashBig |-> BigIntOfHex(SortedPairHash(left.hashBig, right.hashBig))]
         IN MerkleLevel(currentLevel, i + 2, Append(nextLevel, parent), p2)

RECURSIVE MerkleLevels(_, _)
MerkleLevels(currentLevel, proofs) ==
    IF Len(currentLevel) <= 1
    THEN [root |-> toHexString(BigNum(currentLevel[1].hashBig)), proofs |-> proofs]
    ELSE LET next == MerkleLevel(currentLevel, 1, <<>>, proofs)
         IN MerkleLevels(next.level, next.proofs)

\* a tree that keeps no proof entry for the leaf of a single-leaf list
buildMerkleTree_NoSingleProof(leaves) ==
    IF Len(leaves) = 0
    THEN [root |-> toHexString(HexStr(computePoseidonHashOnElements(<<NoRewardsSentinel>>))),
          proofs |-> <<>>]
    ELSE IF Len(leaves) = 1
    THEN [root |-> leaves[1].hash, proofs |-> <<>>]
    ELSE MerkleLevels(
            [i \in 1..Len(leaves) |->
                [addresses |-> <<leaves[i].address>>, hashBig |-> BigIntOfHex(leaves[i].hash)]],
            [k \in { leaves[i].address : i \in 1..Len(leaves) } |-> <<>>])

buildMerkleTree(leaves) ==
    IF Len(leaves) = 0
    THEN [root |-> toHexString(HexStr(computePoseidonHashOnElements(<<NoRewardsSentinel>>))),
          proofs |-> <<>>]
    ELSE IF Len(leaves) = 1
    THEN [root |-> leaves[1].hash, proofs |-> (leaves[1].address :> <<>>)]
    ELSE MerkleLevels(
            [i \in 1..Len(leaves) |->
                [addresses |-> <<leaves[i].address>>, hashBig |-> BigIntOfHex(leaves[i].hash)]],
            [k \in { leaves[i].address : i \in 1..Len(leaves) } |-> <<>>])

FocusKey(address, session_id) == <<address, session_id>>

\* proofs[key].push(h) for the keys of the list that are not among the excluded ones
RECURSIVE PushAllExcept(_, _, _, _)
PushAllExcept(proofs, keys, excluded, h) ==
    IF keys = <<>> THEN proofs
    ELSE PushAllExcept(IF InSeq(Head(keys), excluded) THEN proofs
                       ELSE [proofs EXCEPT ![Head(keys)] = Append(@, h)],
                       Tail(keys), excluded, h)

\* one pass of the for-loop over a level of buildFocusMerkleTree
RECURSIVE FocusMerkleLevel(_, _, _, _)
FocusMerkleLevel(currentLevel, i, nextLevel, proofs) ==
    IF i > Len(currentLevel) THEN [level |-> nextLevel, proofs |-> proofs]
    ELSE LET left == currentLevel[i]
             paired == i + 1 <= Len(currentLevel)
             right == IF paired THEN currentLevel[i + 1] ELSE left
             p1 == PushAll(proofs, left.leafKeys, toHexString(BigNum(right.hashBig)))
             p2 == IF paired
                   THEN PushAllExcept(p1, right.leafKeys, left.leafKeys,
                                      toHexString(BigNum(left.hashBig)))
                   ELSE p1
             parent == [hashBig |-> BigIntOfHex(SortedPairHash(left.hashBig, right.hashBig)),
                        leafKeys |-> IF paired THEN CombineKeys(left.leafKeys, right.leafKeys)
                                     ELSE left.leafKeys]
         IN FocusMerkleLevel(currentLevel, i + 2, Append(nextLevel, parent), p2)

RECURSIVE FocusMerkleLevels(_, _)
FocusMerkleLevels(currentLevel, proofs) ==
    IF Len(currentLevel) <= 1
    THEN [root |-> toHexString(BigNum(currentLevel[1].hashBig)), proofs |-> proofs]
    ELSE LET next == FocusMerkleLevel(currentLevel, 1, <<>>, proofs)
         IN FocusMerkleLevels(next.level, next.proofs)

buildFocusMerkleTree(leaves) ==
    IF Len(leaves) = 0
    THEN [root |-> toHexString(HexStr(computePoseidonHashOnElements(<<NoRewardsSentinel>>))),
          proofs |-> <<>>]
    ELSE IF Len(leaves) = 1
    THEN [root |-> leaves[1].hash,
          proofs |-> (FocusKey(leaves[1].address, leaves[1].session_id) :> <<>>)]
    ELSE FocusMerkleLevels(
            [i \in 1..Len(leaves) |->
                [hashBig |-> BigIntOfHex(leaves[i].hash),
                 leafKeys |-> <<FocusKey(leaves[i].address, leaves[i].session_id)>>]],
            [k \in { FocusKey(leaves[i].address, leaves[i].session_id) : i \in 1..Len(leaves) }
                |-> <<>>])

----------------------------------------------------------------------------
(* Outcome signer (core/crypto) *)

\* stand-ins for the type hashes and short strings of the SNIP-12 message
STARKNET_DOMAIN_TYPE_HASH == 11
CLAIM_REQUEST_TYPE_HASH == 13
AppNameFelt == 17
VersionFelt == 1
MessagePrefixFelt == 19
ChainIdFelt == 23
VerifierKeyFelt == 29

createAlarmOutcomeSignature(userAddress, alarmId, wakeupTime, snoozeCount, expiry) ==
    LET domainHash == computePoseidonHashOnElements(
            <<STARKNET_DOMAIN_TYPE_HASH, AppNameFelt, VersionFelt, ChainIdFelt, 1>>)
        structHash == computePoseidonHashOnElements(
            <<CLAIM_REQUEST_TYPE_HASH, BigIntOfHex(userAddress), alarmId, wakeupTime,
              snoozeCount, expiry>>)
        messageHash == computePoseidonHashOnElements(
            <<MessagePrefixFelt, BigIntOfHex(domainHash), BigIntOfHex(userAddress),
              BigIntOfHex(structHash)>>)
        signed == computePoseidonHashOnElements(<<BigIntOfHex(messageHash), VerifierKeyFelt>>)
    IN [message_hash |-> messageHash, signature_r |-> signed, signature_s |-> signed]

\* createFocusOutcomeSignature is a placeholder: every call throws
createFocusOutcomeSignatureThrows == TRUE

----------------------------------------------------------------------------
(* State of a pool run *)

NoMessage == [text |-> "", delta |-> 0, readyTime |-> 0]

IdleRun ==
    [pc |-> "idle", poolType |-> "none", day |-> 0, period |-> 0, force |-> FALSE,
     clockMs |-> 0, users |-> <<>>, totalSlashed |-> 0, protocolFees |-> 0,
     newRewards |-> 0, rewards |-> <<>>, leaves |-> <<>>,
     merkleTree |-> [root |-> <<>>, proofs |-> <<>>],
     nonce |-> NULL, txHash |-> 0, receipt |-> "none",
     updates |-> <<>>, claimDataInserts |-> <<>>, updated |-> 0, expiry |-> 0,
     returned |-> {}, thrown |-> {}, aborted |-> {}, exitCode |-> {}]

InitChain ==
    [roots |-> [slot \in {"alarm", "focus"} \X Days \X Periods |-> 0],
     stale |-> [slot \in {"alarm", "focus"} \X Days \X Periods |-> 0],
     nonce |-> 0,
     pending |-> <<>>,
     submitted |-> <<>>]

\* history of a run: the phases entered, the external calls issued, the call that
\* failed, the number read back as root, and the storage and ledger as the run found them
NoTrace ==
    [phases |-> <<>>, calls |-> <<>>, failed |-> "", onChainRead |-> {},
     claimRows |-> <<0, 0>>, chainAtStore |-> InitChain]

\* a caller's await of process*Pool that does not wait for the run to settle
RunSettled_NoAwait == TRUE

\* the await of process*Pool: no run is in progress
RunSettled == run.pc \in {"idle", "ended"}

\* the run ends by returning a ProcessingResult
Return(r, result) == [r EXCEPT !.pc = "ended", !.returned = {result}]

\* the run ends by throwing (the catch of process*Pool logs and rethrows)
Throw(r, error) == [r EXCEPT !.pc = "ended", !.thrown = {error}]

Phase(t, name) == [t EXCEPT !.phases = Append(@, name)]
Call(t, name) == [t EXCEPT !.calls = Append(@, name)]
FailedCall(t, name) == [t EXCEPT !.calls = Append(@, name), !.failed = name]
StartTrace == [NoTrace EXCEPT !.claimRows = <<Len(user_claim_data), Len(user_claim_data_locks)>>]

ContractOf(poolType) == poolType

PoolSlot(poolType, day, period) == <<ContractOf(poolType), day, period>>

\* Date.now() at the start of a run: the last millisecond before the pool is ready,
\* or the moment it becomes ready
ClockChoices(day, period) ==
    LET readyMs == (calculateTimeRange(day, period).periodEnd + TIME_BUFFER_SECONDS) * 1000
    IN {readyMs - 1, readyMs}

\* no batch driver or cron entry point is running
IdleBatch ==
    [pc |-> "idle", entry |-> "none", poolType |-> "none", force |-> FALSE, clockMs |-> 0,
     pools |-> <<>>, i |-> 0,
     successCount |-> 0, failCount |-> 0, skippedCount |-> 0,
     failedPools |-> <<>>, skippedPools |-> <<>>, results |-> <<>>,
     attempted |-> <<>>, outcomes |-> <<>>, alarm |-> {}, returned |-> {}, thrown |-> {}, exitCode |-> {}]

\* no second invocation is publishing
IdlePeer == [pc |-> "idle", slot |-> <<>>, merkleRoot |-> <<>>, nonce |-> NULL, txHash |-> 0]

----------------------------------------------------------------------------
(* Initial state *)

\* the environments: every option valid, the optional focus options missing, and a
\* required option missing or malformed
CompleteEnv == [required |-> TRUE, focus |-> TRUE]
EnvChoices == {CompleteEnv, [required |-> TRUE, focus |-> FALSE],
               [required |-> FALSE, focus |-> TRUE]}

Init ==
    /\ \E n \in 0..MaxUsers, variant \in Variants :
          /\ (n = 0 => variant = "plain")
          /\ (n = 1 => variant \notin {"shared_owner", "two_pools"})
          /\ alarms = AlarmRows(n, variant)
          /\ focus_locks = FocusRows(n, variant)
          /\ wallets = WalletRows(n, variant)
    /\ user_claim_data = <<>>
    /\ user_claim_data_locks = <<>>
    /\ env \in EnvChoices
    /\ chain = InitChain
    /\ run = IdleRun
    /\ trace = NoTrace
    /\ runs = 0
    /\ batch = IdleBatch
    /\ peer = IdlePeer

----------------------------------------------------------------------------
(* processFocusLockPool (focus/processor) *)

getFocusConfig == env.focus

\* a loadConfig that accepts every environment
loadConfigThrows_Never == FALSE

\* loadConfig: configSchema.parse(process.env) throws when a required option is
\* missing or an option is malformed
loadConfigThrows == ~env.required

\* entry: configuration check and time buffer check, up to the await of the fetch
FocusStart(day, period, force, clockMs) ==
    /\ runs' = runs + 1
    /\ LET r0 == [IdleRun EXCEPT !.poolType = "focus", !.day = day, !.period = period,
                                 !.force = force, !.clockMs = clockMs]
           now == NowSeconds(clockMs)
           readyTime == calculateTimeRange(day, period).periodEnd + TIME_BUFFER_SECONDS
       IN IF ~getFocusConfig
          THEN /\ run' = Throw(r0, "Focus lock configuration not available")
               /\ trace' = StartTrace
          ELSE IF ~force /\ now < readyTime
          THEN /\ run' = Return(r0, [success |-> FALSE,
                                     message |-> [text |-> "Too early to process",
                                                  delta |-> readyTime - now,
                                                  readyTime |-> readyTime],
                                     pool_info |-> {}, transaction_hash |-> {}])
               /\ trace' = Phase(StartTrace, "CHECK_TIMING")
          ELSE /\ run' = [r0 EXCEPT !.pc = "fetch"]
               /\ trace' = Phase(StartTrace, "CHECK_TIMING")
    /\ UNCHANGED <<alarms, focus_locks, wallets, user_claim_data, user_claim_data_locks,
                   env, chain>>

\* a fetch that never reports the pool as empty
EmptyPool_Never(users) == FALSE

\* users.length === 0 after the fetch
EmptyPool(users) == Len(users) = 0

\* Step 1: fetch the focus locks; the query fails or returns the rows of the pool
FocusFetch ==
    /\ run.pc = "fetch"
    /\ run.poolType = "focus"
    /\ \E dbError \in BOOLEAN :
          LET t == Call(Phase(trace, "FETCH"), "fetch")
              users == fetchFocusLocksFromPool(run.day, run.period)
          IN IF dbError
             THEN /\ run' = Throw(run, "Database query failed")
                  /\ trace' = FailedCall(Phase(trace, "FETCH"), "fetch")
             ELSE IF EmptyPool(users)
             THEN /\ run' = Return(run, [success |-> FALSE,
                                         message |-> [NoMessage EXCEPT
                                                        !.text = "No focus locks in pool"],
                                         pool_info |-> {}, transaction_hash |-> {}])
                  /\ trace' = t
             ELSE /\ run' = [run EXCEPT !.pc = "validate", !.users = users]
                  /\ trace' = t
    /\ UNCHANGED <<batch, peer, alarms, focus_locks, wallets, user_claim_data, user_claim_data_locks,
                   env, chain, runs>>

\* Step 2: validatePoolUsers throws on the first invalid user
Validate ==
    /\ run.pc = "validate"
    /\ trace' = Phase(trace, "VALIDATE")
    /\ IF validatePoolUsers(run.users)
       THEN run' = [run EXCEPT !.pc = "compute"]
       ELSE run' = Throw(run, "Invalid user data")
    /\ UNCHANGED <<batch, peer, alarms, focus_locks, wallets, user_claim_data, user_claim_data_locks,
                   env, chain, runs>>

\* Step 3: slashed total, protocol fee, weighted rewards
FocusCompute ==
    /\ run.pc = "compute"
    /\ run.poolType = "focus"
    /\ trace' = Phase(trace, "COMPUTE")
    /\ LET totalSlashed == calculateFocusTotalSlashed(run.users)
           protocolFees == (totalSlashed * PROTOCOL_FEE_PERCENT) \div PERCENT_BASE
           newRewards == totalSlashed - protocolFees
       IN run' = [run EXCEPT !.pc = "commit",
                             !.totalSlashed = totalSlashed,
                             !.protocolFees = protocolFees,
                             !.newRewards = newRewards,
                             !.rewards = calculateFocusRewards(run.users, newRewards)]
    /\ UNCHANGED <<batch, peer, alarms, focus_locks, wallets, user_claim_data, user_claim_data_locks,
                   env, chain, runs>>

\* a lookup of the reward by address alone
FocusRewardOf_ByAddress(rewards, user) ==
    LET idx == FindIndex({ i \in 1..Len(rewards) : rewards[i].address = user.address })
    IN IF idx = 0 THEN 0 ELSE rewards[idx].reward_amount

\* the reward of a lock: rewards.find by address and session id, 0 when there is none
FocusRewardOf(rewards, user) ==
    LET idx == FindIndex({ i \in 1..Len(rewards) :
                             /\ rewards[i].address = user.address
                             /\ rewards[i].session_id = user.session_id })
    IN IF idx = 0 THEN 0 ELSE rewards[idx].reward_amount

\* the leaves of Step 4: one per lock, keyed by address and session
FocusLeaves(users, rewards) ==
    [i \in 1..Len(users) |->
        [address |-> users[i].address,
         session_id |-> users[i].session_id,
         hash |-> createFocusMerkleLeaf(users[i].address, users[i].session_id,
                                        FocusRewardOf(rewards, users[i]))]]

\* a Step 4 that hands over to the storage step, leaving the ledger for later
FocusCommit_ThenPersist ==
    /\ run.pc = "commit"
    /\ run.poolType = "focus"
    /\ trace' = Phase(trace, "COMMIT")
    /\ LET leaves == FocusLeaves(run.users, run.rewards)
       IN run' = [run EXCEPT !.pc = "store", !.leaves = leaves,
                             !.merkleTree = buildFocusMerkleTree(leaves)]
    /\ UNCHANGED <<batch, peer, alarms, focus_locks, wallets, user_claim_data, user_claim_data_locks,
                   env, chain, runs>>

\* Step 4: one leaf per lock, then the tree
FocusCommit ==
    /\ run.pc = "commit"
    /\ run.poolType = "focus"
    /\ trace' = Phase(trace, "COMMIT")
    /\ LET leaves == FocusLeaves(run.users, run.rewards)
       IN run' = [run EXCEPT !.pc = "publish", !.leaves = leaves,
                             !.merkleTree = buildFocusMerkleTree(leaves)]
    /\ UNCHANGED <<batch, peer, alarms, focus_locks, wallets, user_claim_data, user_claim_data_locks,
                   env, chain, runs>>

\* Step 5: initialize the service and enter setMerkleRootOnChain, up to the nonce read
PublishBegin ==
    /\ run.pc = "publish"
    /\ trace' = Phase(trace, "PUBLISH")
    /\ run' = [run EXCEPT !.pc = "getNonce"]
    /\ UNCHANGED <<batch, peer, alarms, focus_locks, wallets, user_claim_data, user_claim_data_locks,
                   env, chain, runs>>

\* a catch that logs the ledger failure and goes on to the storage step
PublishFailed_Swallowed(r) == [r EXCEPT !.pc = "store"]

\* a catch that starts the publication again
PublishFailed_Retried(r) == [r EXCEPT !.pc = "getNonce"]

\* the catch around setMerkleRootOnChain: any ledger failure ends the run
PublishFailed(r) == Throw(r, "Blockchain finalization required before database storage")

----------------------------------------------------------------------------
(* BlockchainService.setMerkleRootOnChain (core/blockchain) *)

Slot(r) == PoolSlot(r.poolType, r.day, r.period)

\* account.getNonce()
GetNonce ==
    /\ run.pc = "getNonce"
    /\ \E rpcError \in BOOLEAN :
          IF rpcError
          THEN /\ run' = PublishFailed(run)
               /\ trace' = FailedCall(trace, "getNonce")
          ELSE /\ run' = [run EXCEPT !.pc = "execute", !.nonce = chain.nonce]
               /\ trace' = Call(trace, "getNonce")
    /\ UNCHANGED <<batch, peer, alarms, focus_locks, wallets, user_claim_data, user_claim_data_locks,
                   env, chain, runs>>

\* the ledger after the node took a submission: the account nonce advances and the
\* transaction waits for inclusion
Submitted(c, tx) ==
    [c EXCEPT !.nonce = @ + 1,
              !.pending = Append(@, [tx EXCEPT !.hash = c.nonce + 1]),
              !.submitted = Append(@, tx.nonce)]

\* the ledger after waitForTransaction(txHash): the transaction left the pending ones,
\* and the contract stores its root when the call was applied
Included(c, txHash, applied) ==
    LET tx == CHOOSE t \in { c.pending[i] : i \in 1..Len(c.pending) } : t.hash = txHash
        rest == SelectSeq(c.pending, LAMBDA t : t.hash # txHash)
    IN IF applied
       THEN [c EXCEPT !.stale[tx.slot] = c.roots[tx.slot],
                      !.roots[tx.slot] = BigIntOfHex(tx.merkleRoot),
                      !.pending = rest]
       ELSE [c EXCEPT !.pending = rest]

\* account.execute([call], {nonce}): the call does not reach the node, or the node
\* rejects a nonce that is not the account's next one, or it takes the transaction
Execute ==
    /\ run.pc = "execute"
    /\ \E rpcError \in BOOLEAN :
          IF rpcError
          THEN /\ run' = PublishFailed(run)
               /\ trace' = FailedCall(trace, "execute")
               /\ chain' = chain
          ELSE IF run.nonce # chain.nonce
          THEN /\ run' = PublishFailed(run)
               /\ trace' = FailedCall(trace, "execute")
               /\ chain' = [chain EXCEPT !.submitted = Append(@, run.nonce)]
          ELSE /\ trace' = Call(trace, "execute")
               /\ run' = [run EXCEPT !.pc = "waitForTransaction",
                                     !.txHash = chain.nonce + 1]
               /\ chain' = Submitted(chain,
                               [hash |-> 0,
                                slot |-> Slot(run),
                                merkleRoot |-> run.merkleTree.root,
                                newRewards |-> toU256Parts(run.newRewards),
                                protocolFees |-> toU256Parts(run.protocolFees),
                                nonce |-> run.nonce])
    /\ UNCHANGED <<batch, peer, alarms, focus_locks, wallets, user_claim_data, user_claim_data_locks,
                   env, runs>>

\* what the confirmation can deliver: a failure of the wait, or a receipt with or
\* without an execution status; the contract stores the root when the call is applied
Receipts ==
    {[thrown |-> TRUE, status |-> "none", applied |-> FALSE],
     [thrown |-> FALSE, status |-> "SUCCEEDED", applied |-> TRUE],
     [thrown |-> FALSE, status |-> "REVERTED", applied |-> FALSE],
     [thrown |-> FALSE, status |-> "absent", applied |-> TRUE],
     [thrown |-> FALSE, status |-> "absent", applied |-> FALSE]}

\* a status check that lets every receipt pass
ReceiptFailed_Never(receipt) == FALSE

\* the status check of the receipt: 'execution_status' in receipt && status !== 'SUCCEEDED'
ReceiptFailed(receipt) == receipt.status # "absent" /\ receipt.status # "SUCCEEDED"

\* provider.waitForTransaction(txHash) and the status check
WaitForTransaction ==
    /\ run.pc = "waitForTransaction"
    /\ \E receipt \in Receipts :
          /\ trace' = IF receipt.thrown THEN FailedCall(trace, "waitForTransaction")
                      ELSE Call(trace, "waitForTransaction")
          /\ chain' = Included(chain, run.txHash, receipt.applied)
          /\ IF receipt.thrown \/ ReceiptFailed(receipt)
             THEN run' = [PublishFailed(run) EXCEPT !.receipt = receipt.status]
             ELSE run' = [run EXCEPT !.pc = "verifyMerkleRoot", !.receipt = receipt.status]
    /\ UNCHANGED <<batch, peer, alarms, focus_locks, wallets, user_claim_data, user_claim_data_locks,
                   env, runs>>

UpperCase(s) == [i \in 1..Len(s) |-> UpperChar(s[i])]

\* what get_pool_info can deliver as its first element: the stored root, as a hex
\* string in either case or as a number, or the root a lagging node still holds
OnChainReads(slot) ==
    LET stored == <<"0", "x">> \o ToString16(chain.roots[slot])
        lagging == <<"0", "x">> \o ToString16(chain.stale[slot])
    IN {HexStr(stored), HexStr(UpperCase(stored)), BigNum(chain.roots[slot]),
        HexStr(lagging)}

\* a verification that reads the root back and never compares it
RootMismatch_Never(onChain, expectedMerkleRoot) == FALSE

\* the comparison of verifyMerkleRoot: the normalized strings differ
RootMismatch(onChain, expectedMerkleRoot) ==
    LET onChainMerkleRoot == normalizeHex(onChain)
        expectedNormalized == normalizeHex(HexStr(expectedMerkleRoot))
    IN onChainMerkleRoot # expectedNormalized

\* verifyMerkleRoot: re-read the root and compare it with the expected one
VerifyMerkleRoot ==
    /\ run.pc = "verifyMerkleRoot"
    /\ \/ /\ run' = PublishFailed(run)
          /\ trace' = FailedCall(trace, "callContract")
       \/ \E onChain \in OnChainReads(Slot(run)) :
             /\ trace' = [Call(trace, "callContract") EXCEPT
                             !.onChainRead = {ValueOf(onChain)}]
             /\ IF RootMismatch(onChain, run.merkleTree.root)
                THEN run' = PublishFailed(run)
                ELSE run' = [run EXCEPT !.pc = "store"]
    /\ UNCHANGED <<batch, peer, alarms, focus_locks, wallets, user_claim_data, user_claim_data_locks,
                   env, chain, runs>>

----------------------------------------------------------------------------
(* storeAlarmResults / storeFocusLockResults (core/database) *)

ProofOf(proofs, key) == IF key \in DOMAIN proofs THEN proofs[key] ELSE <<>>

\* the reward of an alarm user: rewards.find by address, '0' when there is none
AlarmRewardOf(rewards, user) ==
    LET idx == FindIndex({ i \in 1..Len(rewards) : rewards[i].address = user.address })
    IN IF idx = 0 THEN 0 ELSE rewards[idx].reward_amount

\* storeAlarmResults up to the first update: one signature, update and claim row per user
AlarmStore ==
    /\ run.pc = "store"
    /\ run.poolType = "alarm"
    /\ trace' = [Phase(trace, "SIGN_AND_PERSIST") EXCEPT !.chainAtStore = chain]
    /\ LET expiry == calculateExpiry(run.clockMs)
           claimRow(user) ==
               LET signature == createAlarmOutcomeSignature(
                                    user.address, user.alarm_id, user.wake_up_time,
                                    user.snooze_count, expiry)
               IN [alarm_id |-> user.alarm_uuid,
                   signature_r |-> signature.signature_r,
                   signature_s |-> signature.signature_s,
                   message_hash |-> signature.message_hash,
                   reward_amount |-> AlarmRewardOf(run.rewards, user),
                   merkle_proof |-> ProofOf(run.merkleTree.proofs, user.address),
                   expiry_time |-> expiry,
                   processed_at |-> run.clockMs]
       IN run' = [run EXCEPT
                    !.pc = "update",
                    !.expiry = expiry,
                    !.updates = [i \in 1..Len(run.users) |->
                                    [id |-> run.users[i].alarm_uuid,
                                     claim_ready |-> TRUE, has_claimed |-> FALSE]],
                    !.claimDataInserts = [i \in 1..Len(run.users) |-> claimRow(run.users[i])]]
    /\ UNCHANGED <<batch, peer, alarms, focus_locks, wallets, user_claim_data, user_claim_data_locks,
                   env, chain, runs>>

\* storeFocusLockResults up to the first update: the signer of the first lock throws
FocusStore ==
    /\ run.pc = "store"
    /\ run.poolType = "focus"
    /\ trace' = [Phase(trace, "SIGN_AND_PERSIST") EXCEPT !.chainAtStore = chain]
    /\ LET expiry == calculateExpiry(run.clockMs)
           claimRow(user) ==
               [focus_lock_id |-> user.focus_lock_id,
                reward_amount |-> FocusRewardOf(run.rewards, user),
                merkle_proof |-> ProofOf(run.merkleTree.proofs,
                                         FocusKey(user.address, user.session_id)),
                expiry_time |-> expiry,
                processed_at |-> run.clockMs]
       IN IF Len(run.users) > 0 /\ createFocusOutcomeSignatureThrows
          THEN run' = Throw([run EXCEPT !.expiry = expiry],
                            "Focus lock signatures not yet implemented")
          ELSE run' = [run EXCEPT
                    !.pc = "update",
                    !.expiry = expiry,
                    !.updates = [i \in 1..Len(run.users) |->
                                    [id |-> run.users[i].focus_lock_id,
                                     claim_ready |-> TRUE, has_claimed |-> FALSE]],
                    !.claimDataInserts = [i \in 1..Len(run.users) |-> claimRow(run.users[i])]]
    /\ UNCHANGED <<batch, peer, alarms, focus_locks, wallets, user_claim_data, user_claim_data_locks,
                   env, chain, runs>>

\* .update({claim_ready, has_claimed}).eq('id', id) on a table
ApplyUpdate(table, update) ==
    { IF row.id = update.id
      THEN [row EXCEPT !.claim_ready = update.claim_ready, !.has_claimed = update.has_claimed]
      ELSE row : row \in table }

\* an error branch that logs the failed update and goes on to the insert
UpdateFailed_LoggedOnly(r) == [r EXCEPT !.pc = "insert"]

\* the error branch of the update loop: log and throw
UpdateFailed(r) == Throw(r, "Failed to update record")

\* one iteration of the update loop: the update is applied, or it fails and the store throws
StoreUpdate ==
    /\ run.pc = "update"
    /\ LET update == run.updates[run.updated + 1]
       IN \E dbError \in BOOLEAN :
            IF dbError
            THEN /\ run' = UpdateFailed(run)
                 /\ trace' = FailedCall(trace, "update")
                 /\ UNCHANGED <<alarms, focus_locks>>
            ELSE /\ trace' = Call(trace, "update")
                 /\ run' = [run EXCEPT
                              !.updated = @ + 1,
                              !.pc = IF run.updated + 1 = Len(run.updates)
                                     THEN "insert" ELSE "update"]
                 /\ IF run.poolType = "alarm"
                    THEN /\ alarms' = ApplyUpdate(alarms, update)
                         /\ UNCHANGED focus_locks
                    ELSE /\ focus_locks' = ApplyUpdate(focus_locks, update)
                         /\ UNCHANGED alarms
    /\ UNCHANGED <<batch, peer, wallets, user_claim_data, user_claim_data_locks, env,
                   chain, runs>>

\* the batch insert of the claim rows: all rows are inserted, or the insert fails
StoreInsert ==
    /\ run.pc = "insert"
    /\ \E dbError \in BOOLEAN :
          IF dbError
          THEN /\ run' = Throw(run, "Failed to insert claim data")
               /\ trace' = FailedCall(trace, "insert")
               /\ UNCHANGED <<user_claim_data, user_claim_data_locks>>
          ELSE /\ trace' = Call(trace, "insert")
               /\ run' = [run EXCEPT !.pc = "finish"]
               /\ IF run.poolType = "alarm"
                  THEN /\ user_claim_data' = user_claim_data \o run.claimDataInserts
                       /\ UNCHANGED user_claim_data_locks
                  ELSE /\ user_claim_data_locks' = user_claim_data_locks \o run.claimDataInserts
                       /\ UNCHANGED user_claim_data
    /\ UNCHANGED <<batch, peer, alarms, focus_locks, wallets, env, chain, runs>>

\* the success result of the run
Finish ==
    /\ run.pc = "finish"
    /\ trace' = Phase(trace, "DONE")
    /\ run' = Return(run,
                [success |-> TRUE,
                 message |-> NoMessage,
                 pool_info |-> {[day |-> run.day, period |-> run.period,
                                 merkle_root |-> run.merkleTree.root,
                                 total_slashed_amount |-> run.totalSlashed,
                                 new_rewards |-> run.newRewards,
                                 protocol_fees |-> run.protocolFees,
                                 transaction_hash |-> run.txHash,
                                 total_users |-> Len(run.users),
                                 winners |-> Len(run.rewards),
                                 blockchain_status |-> "success"]},
                 transaction_hash |-> {run.txHash}])
    /\ UNCHANGED <<batch, peer, alarms, focus_locks, wallets, user_claim_data, user_claim_data_locks,
                   env, chain, runs>>

----------------------------------------------------------------------------
(* processAlarmPool (alarm/processor): the same flow over the alarms table *)

AlarmStart(day, period, force, clockMs) ==
    /\ runs' = runs + 1
    /\ LET r0 == [IdleRun EXCEPT !.poolType = "alarm", !.day = day, !.period = period,
                                 !.force = force, !.clockMs = clockMs]
           now == NowSeconds(clockMs)
           readyTime == calculateTimeRange(day, period).periodEnd + TIME_BUFFER_SECONDS
       IN IF ~force /\ now < readyTime
          THEN run' = Return(r0, [success |-> FALSE,
                                  message |-> [text |-> "Too early to process",
                                               delta |-> readyTime - now,
                                               readyTime |-> readyTime],
                                  pool_info |-> {}, transaction_hash |-> {}])
          ELSE run' = [r0 EXCEPT !.pc = "fetch"]
    /\ trace' = Phase(StartTrace, "CHECK_TIMING")
    /\ UNCHANGED <<alarms, focus_locks, wallets, user_claim_data, user_claim_data_locks,
                   env, chain>>

AlarmFetch ==
    /\ run.pc = "fetch"
    /\ run.poolType = "alarm"
    /\ \E dbError \in BOOLEAN :
          LET users == fetchAlarmsFromPool(run.day, run.period)
          IN IF dbError
             THEN /\ run' = Throw(run, "Database query failed")
                  /\ trace' = FailedCall(Phase(trace, "FETCH"), "fetch")
             ELSE /\ trace' = Call(Phase(trace, "FETCH"), "fetch")
                  /\ IF EmptyPool(users)
                     THEN run' = Return(run, [success |-> FALSE,
                                              message |-> [NoMessage EXCEPT
                                                             !.text = "No alarms in pool"],
                                              pool_info |-> {}, transaction_hash |-> {}])
                     ELSE run' = [run EXCEPT !.pc = "validate", !.users = users]
    /\ UNCHANGED <<batch, peer, alarms, focus_locks, wallets, user_claim_data, user_claim_data_locks,
                   env, chain, runs>>

AlarmCompute ==
    /\ run.pc = "compute"
    /\ run.poolType = "alarm"
    /\ trace' = Phase(trace, "COMPUTE")
    /\ LET totalSlashed == calculateTotalSlashed(run.users)
           protocolFees == (totalSlashed * PROTOCOL_FEE_PERCENT) \div PERCENT_BASE
           newRewards == totalSlashed - protocolFees
       IN run' = [run EXCEPT !.pc = "commit",
                             !.totalSlashed = totalSlashed,
                             !.protocolFees = protocolFees,
                             !.newRewards = newRewards,
                             !.rewards = calculateRewards(run.users, totalSlashed)]
    /\ UNCHANGED <<batch, peer, alarms, focus_locks, wallets, user_claim_data, user_claim_data_locks,
                   env, chain, runs>>

\* aggregateRewardsByAddress: the total of the shares of an address
aggregateRewardsByAddress(rewards) ==
    [a \in { rewards[i].address : i \in 1..Len(rewards) } |->
        SumSeq([i \in 1..Len(rewards) |->
                  IF rewards[i].address = a THEN rewards[i].reward_amount ELSE 0])]

\* the addresses of the users, each once, in the order of first appearance
RECURSIVE UniqueAddresses(_, _)
UniqueAddresses(users, acc) ==
    IF users = <<>> THEN acc
    ELSE UniqueAddresses(Tail(users),
                         IF InSeq(Head(users).address, acc) THEN acc
                         ELSE Append(acc, Head(users).address))

AlarmCommit ==
    /\ run.pc = "commit"
    /\ run.poolType = "alarm"
    /\ trace' = Phase(trace, "COMMIT")
    /\ LET aggregated == aggregateRewardsByAddress(run.rewards)
           addresses == UniqueAddresses(run.users, <<>>)
           leaves == [i \in 1..Len(addresses) |->
                        [address |-> addresses[i],
                         hash |-> createMerkleLeaf(
                                     addresses[i],
                                     IF addresses[i] \in DOMAIN aggregated
                                     THEN aggregated[addresses[i]] ELSE 0)]]
       IN run' = [run EXCEPT !.pc = "publish", !.leaves = leaves,
                             !.merkleTree = buildMerkleTree(leaves)]
    /\ UNCHANGED <<batch, peer, alarms, focus_locks, wallets, user_claim_data, user_claim_data_locks,
                   env, chain, runs>>

----------------------------------------------------------------------------
(* Pool discovery (core/database) *)

\* a grouping that keeps one pool per row
UniquePools_PerRow(infos, pools) == pools \o infos

\* the pools of a list of pool infos, each once, in the order of first appearance
UniquePools(infos, pools) ==
    LET Step[k \in 0..Len(infos)] ==
            IF k = 0 THEN pools
            ELSE IF InSeq(infos[k], Step[k - 1]) THEN Step[k - 1]
                 ELSE Append(Step[k - 1], infos[k])
    IN Step[Len(infos)]

\* findUnprocessedAlarmPools: the pools of the alarms not yet claim_ready and not
\* older than 48 hours, in the order of their wakeup_time
findUnprocessedAlarmPools(clockMs) ==
    LET rows == { a \in alarms : a.claim_ready = FALSE }
        ordered == OrderBy(rows, [a \in rows |-> a.wakeup_time])
        cutoff == NowSeconds(clockMs) - 48 * 3600
        recentAlarms == SelectSeq(ordered, LAMBDA a : a.wakeup_time >= cutoff)
    IN UniquePools([k \in 1..Len(recentAlarms) |->
                       calculatePoolInfo(recentAlarms[k].wakeup_time)], <<>>)

\* findUnprocessedFocusLockPools: the pools of the locks not yet claim_ready that ended
\* within 48 hours, in the order of their start_time; a period of the old 6-hour
\* scheme is recalculated from the start_time
findUnprocessedFocusLockPools(clockMs) ==
    LET rows == { l \in focus_locks : l.claim_ready = FALSE }
        ordered == OrderBy(rows, [l \in rows |-> l.start_time])
        now == NowSeconds(clockMs)
        cutoff == now - 48 * 3600
        recentLocks == SelectSeq(ordered,
                          LAMBDA l : l.start_time + l.duration_minutes * 60 >= cutoff)
    IN UniquePools([k \in 1..Len(recentLocks) |->
                       IF recentLocks[k].period >= 2
                       THEN calculatePoolInfo(recentLocks[k].start_time)
                       ELSE [day |-> recentLocks[k].day,
                             period |-> recentLocks[k].period]], <<>>)

----------------------------------------------------------------------------
(* Batch drivers (alarm/batch-processor, focus/batch-processor), the         *)
(* process-all commands and the cron entry points (cron/processor)          *)

\* Date.now() when a driver is started: just before the first pool is ready, when the
\* first pool is ready, and when the second pool is ready
BatchClockChoices == ClockChoices(1, 0) \cup {(calculateTimeRange(1, 1).periodEnd + TIME_BUFFER_SECONDS) * 1000}

\* the result a settled run hands to its caller
RunSucceeded == \E result \in run.returned : result.success
RunMessage == IF run.returned = {} THEN "" ELSE (CHOOSE result \in run.returned : TRUE).message.text
RunError == IF run.thrown = {} THEN "" ELSE CHOOSE error \in run.thrown : TRUE

\* how the settled run ended: with success, by throwing, or with a non-success message
RunOutcome == IF run.thrown # {} THEN "threw"
              ELSE IF RunSucceeded THEN "success" ELSE RunMessage

\* the BatchProcessingResult of processAllFocusLockPools
FocusBatchResult(b) ==
    [totalPools |-> Len(b.pools), successCount |-> b.successCount,
     failCount |-> b.failCount, skippedCount |-> b.skippedCount,
     failedPools |-> b.failedPools, skippedPools |-> b.skippedPools]

\* the result of processAllAlarmPools
AlarmBatchResult(b) ==
    [success |-> b.successCount, failed |-> b.failCount, total |-> Len(b.pools),
     results |-> b.results]

\* the CronBatchResult of processAllCronPools
CronBatchResult(alarmBatchResult, focusBatchResult) ==
    [success |-> alarmBatchResult.failed = 0 /\ focusBatchResult.failCount = 0,
     alarm |-> [total |-> alarmBatchResult.total, success |-> alarmBatchResult.success,
                failed |-> alarmBatchResult.failed, skipped |-> 0],
     focus |-> [total |-> focusBatchResult.totalPools,
                success |-> focusBatchResult.successCount,
                failed |-> focusBatchResult.failCount,
                skipped |-> focusBatchResult.skippedCount]]

\* process.exit of the process-all commands
ExitCode(failed) == IF failed > 0 THEN 1 ELSE 0

\* processAllAlarmPools returned: the alarm process-all command exits, processAllCronPools
\* goes on to its delay
AlarmBatchReturned(b) ==
    IF b.entry = "alarm process-all"
    THEN [b EXCEPT !.pc = "ended", !.returned = {AlarmBatchResult(b)},
                   !.exitCode = {ExitCode(AlarmBatchResult(b).failed)}]
    ELSE [b EXCEPT !.pc = "cronDelay", !.alarm = {AlarmBatchResult(b)}]

\* processAllFocusLockPools returned: the focus process-all command exits,
\* processAllCronPools returns the two summaries
FocusBatchReturned(b) ==
    IF b.entry = "focus process-all"
    THEN [b EXCEPT !.pc = "ended", !.returned = {FocusBatchResult(b)},
                   !.exitCode = {ExitCode(FocusBatchResult(b).failCount)}]
    ELSE [b EXCEPT !.pc = "ended",
                   !.returned = {CronBatchResult(CHOOSE r \in b.alarm : TRUE,
                                                 FocusBatchResult(b))}]

\* the discovery query failed: the driver rethrows, a process-all command exits with 1
BatchThrew(b, error) ==
    [b EXCEPT !.pc = "ended", !.thrown = {error},
              !.exitCode = IF b.entry \in {"alarm process-all", "focus process-all"}
                           THEN {1} ELSE {}]

\* the pool the clock is in
calculatePoolToProcess_CurrentPool(clockMs) == calculatePoolInfo(NowSeconds(clockMs))

\* the pool the cron handler processes: before noon the second period of the day
\* before, after noon the first period of the day
calculatePoolToProcess(clockMs) ==
    LET now == NowSeconds(clockMs)
        currentDay == now \div SECONDS_PER_DAY
        currentHour == (now % SECONDS_PER_DAY) \div 3600
    IN IF currentHour < 12 THEN [day |-> currentDay - 1, period |-> 1]
       ELSE [day |-> currentDay, period |-> 0]

\* a process-all command, processAllCronPools or the cron handler (processCronPools)
\* is invoked
BatchStart ==
    /\ batch.pc = "idle"
    /\ RunSettled
    /\ \E entry \in {"alarm process-all", "focus process-all", "processAllCronPools",
                     "processCronPools"},
          force \in BOOLEAN, clockMs \in BatchClockChoices :
          LET started == [IdleBatch EXCEPT
                            !.entry = entry,
                            !.poolType = IF entry = "focus process-all" THEN "focus"
                                         ELSE "alarm",
                            !.force = force, !.clockMs = clockMs]
          IN IF loadConfigThrows
             THEN batch' = BatchThrew(started, "Configuration validation failed")
             ELSE batch' = [started EXCEPT
                              !.pc = IF entry = "processCronPools" THEN "cronPool"
                                     ELSE "find",
                              !.pools = IF entry = "processCronPools"
                                        THEN <<calculatePoolToProcess(clockMs)>>
                                        ELSE <<>>]
    /\ UNCHANGED <<alarms, focus_locks, wallets, user_claim_data, user_claim_data_locks,
                   env, chain, run, trace, runs, peer>>

\* processAllAlarmPools up to its loop
AlarmBatchFind ==
    /\ batch.pc = "find"
    /\ batch.poolType = "alarm"
    /\ \E dbError \in BOOLEAN :
          LET pools == findUnprocessedAlarmPools(batch.clockMs)
          IN IF dbError THEN batch' = BatchThrew(batch, "Database query failed")
             ELSE IF Len(pools) = 0 THEN batch' = AlarmBatchReturned(batch)
             ELSE batch' = [batch EXCEPT !.pc = "loop", !.pools = pools]
    /\ UNCHANGED <<alarms, focus_locks, wallets, user_claim_data, user_claim_data_locks,
                   env, chain, run, trace, runs, peer>>

\* processAllFocusLockPools up to its loop
FocusBatchFind ==
    /\ batch.pc = "find"
    /\ batch.poolType = "focus"
    /\ \E dbError \in BOOLEAN :
          LET pools == findUnprocessedFocusLockPools(batch.clockMs)
          IN IF dbError THEN batch' = BatchThrew(batch, "Database query failed")
             ELSE IF Len(pools) = 0 THEN batch' = FocusBatchReturned(batch)
             ELSE batch' = [batch EXCEPT !.pc = "loop", !.pools = pools]
    /\ UNCHANGED <<alarms, focus_locks, wallets, user_claim_data, user_claim_data_locks,
                   env, chain, run, trace, runs, peer>>

\* the body of the loop up to its await: the run of pools[i] is started
BatchAttempt ==
    /\ batch.pc = "loop"
    /\ LET pool == batch.pools[batch.i + 1]
       IN /\ IF batch.poolType = "alarm"
             THEN AlarmStart(pool.day, pool.period, batch.force, batch.clockMs)
             ELSE FocusStart(pool.day, pool.period, batch.force, batch.clockMs)
          /\ batch' = [batch EXCEPT !.pc = "await",
                                    !.attempted = Append(@, [day |-> pool.day,
                                                             period |-> pool.period])]
    /\ UNCHANGED peer

\* a loop that returns as soon as one pool was recorded
AfterPool_ReturnsEarly(b) ==
    IF b.poolType = "alarm" THEN AlarmBatchReturned([b EXCEPT !.i = @ + 1])
    ELSE FocusBatchReturned([b EXCEPT !.i = @ + 1])

\* the driver after the run of pools[i] was recorded: the delay before the next pool,
\* or the return after the last one
AfterPool(b) ==
    IF b.i + 1 < Len(b.pools) THEN [b EXCEPT !.pc = "delay"]
    ELSE IF b.poolType = "alarm" THEN AlarmBatchReturned([b EXCEPT !.i = @ + 1])
    ELSE FocusBatchReturned([b EXCEPT !.i = @ + 1])

\* processAllAlarmPools after the await: a success is counted, a non-success result and
\* a thrown error are both counted as failed; every pool gets an entry in results
AlarmBatchSettle ==
    /\ batch.pc = "await"
    /\ batch.poolType = "alarm"
    /\ RunSettled
    /\ LET pool == batch.pools[batch.i + 1]
           entry == [day |-> pool.day, period |-> pool.period,
                     success |-> RunSucceeded,
                     message |-> IF run.thrown # {} THEN RunError ELSE RunMessage]
           counted == IF RunSucceeded
                      THEN [batch EXCEPT !.successCount = @ + 1,
                                         !.results = Append(@, entry)]
                      ELSE [batch EXCEPT !.failCount = @ + 1,
                                         !.results = Append(@, entry)]
       IN batch' = AfterPool([counted EXCEPT !.outcomes = Append(@, RunOutcome)])
    /\ UNCHANGED <<alarms, focus_locks, wallets, user_claim_data, user_claim_data_locks,
                   env, chain, run, trace, runs, peer>>

\* processAllFocusLockPools after the await: a success is counted, a non-success result
\* is a skipped pool with its message, a thrown error is a failed pool with its message
FocusBatchSettle ==
    /\ batch.pc = "await"
    /\ batch.poolType = "focus"
    /\ RunSettled
    /\ LET pool == batch.pools[batch.i + 1]
           counted ==
              IF run.thrown # {}
              THEN [batch EXCEPT !.failCount = @ + 1,
                                 !.failedPools = Append(@, [day |-> pool.day,
                                                            period |-> pool.period,
                                                            reason |-> RunError])]
              ELSE IF RunSucceeded
              THEN [batch EXCEPT !.successCount = @ + 1]
              ELSE [batch EXCEPT !.skippedCount = @ + 1,
                                 !.skippedPools = Append(@, [day |-> pool.day,
                                                             period |-> pool.period,
                                                             reason |-> RunMessage])]
       IN batch' = AfterPool([counted EXCEPT !.outcomes = Append(@, RunOutcome)])
    /\ UNCHANGED <<alarms, focus_locks, wallets, user_claim_data, user_claim_data_locks,
                   env, chain, run, trace, runs, peer>>

\* the delay between two pools of a list
BatchDelay ==
    /\ batch.pc = "delay"
    /\ batch' = [batch EXCEPT !.pc = "loop", !.i = @ + 1,
                              !.clockMs = @ + PROCESSING_DELAY_MS]
    /\ UNCHANGED <<alarms, focus_locks, wallets, user_claim_data, user_claim_data_locks,
                   env, chain, run, trace, runs, peer>>

\* processAllCronPools between the two drivers: the delay, then processAllFocusLockPools
CronBatchDelay ==
    /\ batch.pc = "cronDelay"
    /\ batch' = [batch EXCEPT !.pc = "find", !.poolType = "focus", !.pools = <<>>, !.i = 0,
                              !.successCount = 0, !.failCount = 0, !.skippedCount = 0,
                              !.results = <<>>, !.attempted = <<>>, !.outcomes = <<>>,
                              !.clockMs = @ + PROCESSING_DELAY_MS]
    /\ UNCHANGED <<alarms, focus_locks, wallets, user_claim_data, user_claim_data_locks,
                   env, chain, run, trace, runs, peer>>

CronRunResult_ErrorCounts(prefix) == [success |-> run.returned = {} \/ RunSucceeded,
                                      message |-> RunMessage]

\* what processCronPools keeps of a pool run: its result, or the caught error as a
\* non-success result
CronRunResult(prefix) ==
    IF run.thrown # {}
    THEN [success |-> FALSE, message |-> prefix \o RunError]
    ELSE [success |-> RunSucceeded, message |-> RunMessage]

\* processCronPools up to the await of processAlarmPool
CronAttemptAlarm ==
    /\ batch.pc = "cronPool"
    /\ LET pool == batch.pools[1]
       IN /\ AlarmStart(pool.day, pool.period, batch.force, batch.clockMs)
          /\ batch' = [batch EXCEPT !.pc = "cronAwaitAlarm",
                                    !.attempted = Append(@, [day |-> pool.day,
                                                             period |-> pool.period])]
    /\ UNCHANGED peer

\* the alarm run settled: its result is kept and the delay between the pool types begins
CronAlarmSettle ==
    /\ batch.pc = "cronAwaitAlarm"
    /\ RunSettled
    /\ batch' = [batch EXCEPT !.pc = "cronPoolDelay",
                              !.alarm = {CronRunResult("Alarm processing error: ")}]
    /\ UNCHANGED <<alarms, focus_locks, wallets, user_claim_data, user_claim_data_locks,
                   env, chain, run, trace, runs, peer>>

\* after the delay: processFocusLockPool is started for the same pool
CronAttemptFocus ==
    /\ batch.pc = "cronPoolDelay"
    /\ LET pool == batch.pools[1]
           clockMs == batch.clockMs + PROCESSING_DELAY_MS
       IN /\ FocusStart(pool.day, pool.period, batch.force, clockMs)
          /\ batch' = [batch EXCEPT !.pc = "cronAwaitFocus", !.poolType = "focus",
                                    !.clockMs = clockMs,
                                    !.attempted = Append(@, [day |-> pool.day,
                                                             period |-> pool.period])]
    /\ UNCHANGED peer

\* the focus run settled: processCronPools returns the two results
CronFocusSettle ==
    /\ batch.pc = "cronAwaitFocus"
    /\ RunSettled
    /\ LET alarmResult == CHOOSE r \in batch.alarm : TRUE
           focusResult == CronRunResult("Focus lock processing error: ")
       IN batch' = [batch EXCEPT
                      !.pc = "ended",
                      !.returned = {[success |-> alarmResult.success \/ focusResult.success,
                                     pool |-> batch.pools[1],
                                     alarm |-> alarmResult,
                                     focus |-> focusResult]}]
    /\ UNCHANGED <<alarms, focus_locks, wallets, user_claim_data, user_claim_data_locks,
                   env, chain, run, trace, runs, peer>>

----------------------------------------------------------------------------
(* A second invocation (another cron handler invocation, or a CLI command    *)
(* next to the cron job) that publishes with the same signing account       *)

\* the root the second invocation has computed for its pool
PeerRoot == computePoseidonHashOnElements(<<1>>)

\* the second invocation enters setMerkleRootOnChain for its pool
PeerBegin ==
    /\ peer.pc = "idle"
    /\ ~loadConfigThrows
    /\ \E poolType \in {"alarm", "focus"}, day \in Days, period \in Periods :
          peer' = [IdlePeer EXCEPT !.pc = "getNonce",
                                   !.slot = PoolSlot(poolType, day, period),
                                   !.merkleRoot = PeerRoot]
    /\ UNCHANGED <<alarms, focus_locks, wallets, user_claim_data, user_claim_data_locks,
                   env, chain, run, trace, runs, batch>>

\* account.getNonce() of the second invocation
PeerGetNonce ==
    /\ peer.pc = "getNonce"
    /\ \E rpcError \in BOOLEAN :
          peer' = IF rpcError THEN [peer EXCEPT !.pc = "ended"]
                  ELSE [peer EXCEPT !.pc = "execute", !.nonce = chain.nonce]
    /\ UNCHANGED <<alarms, focus_locks, wallets, user_claim_data, user_claim_data_locks,
                   env, chain, run, trace, runs, batch>>

\* account.execute([call], {nonce}) of the second invocation
PeerExecute ==
    /\ peer.pc = "execute"
    /\ \E rpcError \in BOOLEAN :
          IF rpcError
          THEN /\ peer' = [peer EXCEPT !.pc = "ended"]
               /\ chain' = chain
          ELSE IF peer.nonce # chain.nonce
          THEN /\ peer' = [peer EXCEPT !.pc = "ended"]
               /\ chain' = [chain EXCEPT !.submitted = Append(@, peer.nonce)]
          ELSE /\ peer' = [peer EXCEPT !.pc = "waitForTransaction",
                                       !.txHash = chain.nonce + 1]
               /\ chain' = Submitted(chain,
                               [hash |-> 0,
                                slot |-> peer.slot,
                                merkleRoot |-> peer.merkleRoot,
                                newRewards |-> toU256Parts(0),
                                protocolFees |-> toU256Parts(0),
                                nonce |-> peer.nonce])
    /\ UNCHANGED <<alarms, focus_locks, wallets, user_claim_data, user_claim_data_locks,
                   env, run, trace, runs, batch>>

\* provider.waitForTransaction(txHash) of the second invocation
PeerWaitForTransaction ==
    /\ peer.pc = "waitForTransaction"
    /\ \E applied \in BOOLEAN :
          chain' = Included(chain, peer.txHash, applied)
    /\ peer' = [peer EXCEPT !.pc = "ended"]
    /\ UNCHANGED <<alarms, focus_locks, wallets, user_claim_data, user_claim_data_locks,
                   env, run, trace, runs, batch>>

----------------------------------------------------------------------------
(* Specification *)

\* parseInt of an argument that is not a number
NaN == -2

isNaN(n) == n = NaN

\* the day and period arguments of the process command after parseInt
ArgDays == Days \cup {NaN}
ArgPeriods == Periods \cup {2, NaN}

\* the check of the parsed arguments
InvalidArguments(poolDay, poolPeriod) ==
    isNaN(poolDay) \/ isNaN(poolPeriod) \/ poolPeriod < 0 \/ poolPeriod > 1

\* message.includes('Too early'): of the messages of a run only the time buffer
\* message has the words
IncludesTooEarly(text) == text = "Too early to process"

\* an exit code that takes every result without success for a too-early skip
ProcessExitCode_AnySkip(r) ==
    IF r.thrown # {} THEN 1
    ELSE IF \E result \in r.returned : result.success THEN 0
    ELSE 2

\* the exit code of the process command for a settled run: 0 for success, 2 for
\* a result whose message has 'Too early', 1 for every other result and for the catch
ProcessExitCode(r) ==
    IF r.thrown # {} THEN 1
    ELSE IF \E result \in r.returned : result.success THEN 0
    ELSE IF \E result \in r.returned : IncludesTooEarly(result.message.text) THEN 2
    ELSE 1

\* no process command is running
CommandIdle == run.pc = "idle" \/ run.exitCode # {}

\* the process command of the CLI: one pool run per invocation, one invocation at a time
ProcessFocus ==
    /\ CommandIdle
    /\ runs < MaxRuns
    /\ ~loadConfigThrows
    /\ \E day \in ArgDays, period \in ArgPeriods, force \in BOOLEAN :
          /\ ~InvalidArguments(day, period)
          /\ \E clockMs \in ClockChoices(day, period) :
                FocusStart(day, period, force, clockMs)
    /\ UNCHANGED <<batch, peer>>

ProcessAlarm ==
    /\ CommandIdle
    /\ runs < MaxRuns
    /\ ~loadConfigThrows
    /\ \E day \in ArgDays, period \in ArgPeriods, force \in BOOLEAN :
          /\ ~InvalidArguments(day, period)
          /\ \E clockMs \in ClockChoices(day, period) :
                AlarmStart(day, period, force, clockMs)
    /\ UNCHANGED <<batch, peer>>

\* the process command with arguments that are not a day and a period: exit(1)
\* before any pool run
ProcessRejected ==
    /\ CommandIdle
    /\ runs < MaxRuns
    /\ ~loadConfigThrows
    /\ \E poolType \in {"alarm", "focus"}, day \in ArgDays, period \in ArgPeriods :
          /\ InvalidArguments(day, period)
          /\ run' = [IdleRun EXCEPT !.exitCode = {1}]
    /\ runs' = runs + 1
    /\ trace' = StartTrace
    /\ UNCHANGED <<alarms, focus_locks, wallets, user_claim_data, user_claim_data_locks,
                   env, chain, batch, peer>>

\* the process command under an environment loadConfig rejects: the catch of the
\* command logs and exits with 1
ProcessAborted ==
    /\ CommandIdle
    /\ runs < MaxRuns
    /\ loadConfigThrows
    /\ \E poolType \in {"alarm", "focus"} :
          run' = [IdleRun EXCEPT !.aborted = {"Configuration validation failed"},
                                 !.exitCode = {1}]
    /\ runs' = runs + 1
    /\ trace' = StartTrace
    /\ UNCHANGED <<alarms, focus_locks, wallets, user_claim_data, user_claim_data_locks,
                   env, chain, batch, peer>>

\* the continuation of the process command after its await: process.exit
ProcessExit ==
    /\ run.pc = "ended"
    /\ run.exitCode = {}
    /\ run' = [run EXCEPT !.exitCode = {ProcessExitCode(run)}]
    /\ UNCHANGED <<alarms, focus_locks, wallets, user_claim_data, user_claim_data_locks,
                   env, chain, trace, runs, batch, peer>>

Next ==
    \/ ProcessFocus
    \/ ProcessAlarm
    \/ ProcessRejected
    \/ ProcessAborted
    \/ ProcessExit
    \/ FocusFetch
    \/ AlarmFetch
    \/ Validate
    \/ FocusCompute
    \/ AlarmCompute
    \/ FocusCommit
    \/ AlarmCommit
    \/ PublishBegin
    \/ GetNonce
    \/ Execute
    \/ WaitForTransaction
    \/ VerifyMerkleRoot
    \/ FocusStore
    \/ AlarmStore
    \/ StoreUpdate
    \/ StoreInsert
    \/ Finish

Spec == Init /\ [][Next]_vars

\* the steps of a pool run after its start
RunStep ==
    \/ FocusFetch
    \/ AlarmFetch
    \/ Validate
    \/ FocusCompute
    \/ AlarmCompute
    \/ FocusCommit
    \/ AlarmCommit
    \/ PublishBegin
    \/ GetNonce
    \/ Execute
    \/ WaitForTransaction
    \/ VerifyMerkleRoot
    \/ FocusStore
    \/ AlarmStore
    \/ StoreUpdate
    \/ StoreInsert
    \/ Finish

\* the awaits of the publish step and of the storage step of a focus run
PublishStep ==
    \/ GetNonce
    \/ Execute
    \/ WaitForTransaction
    \/ VerifyMerkleRoot
    \/ FocusStore
    \/ StoreUpdate
    \/ StoreInsert
    \/ Finish

\* weak fairness of AlarmStore, written out: the action is enabled exactly where its
\* two guards hold
AlarmStoreResumes ==
    \/ []<>(~(run.pc = "store" /\ run.poolType = "alarm"))
    \/ []<><<AlarmStore>>_vars

\* the process commands when every awaited call of the publish and storage steps
\* settles: the await resumes with the result or the error of its call
LiveSpec == Init /\ [][Next]_vars /\ WF_vars(PublishStep) /\ AlarmStoreResumes

\* one invocation of a batch driver: its pool runs are started by the driver only
BatchNext ==
    \/ BatchStart
    \/ AlarmBatchFind
    \/ FocusBatchFind
    \/ BatchAttempt
    \/ AlarmBatchSettle
    \/ FocusBatchSettle
    \/ BatchDelay
    \/ CronBatchDelay
    \/ CronAttemptAlarm
    \/ CronAlarmSettle
    \/ CronAttemptFocus
    \/ CronFocusSettle
    \/ RunStep

BatchSpec == Init /\ [][BatchNext]_vars

\* one invocation of any entry point: a process command, a process-all command or
\* the cron handler
EntryCommand ==
    /\ runs = 0
    /\ batch.pc = "idle"
    /\ \/ ProcessFocus
       \/ ProcessAlarm
       \/ ProcessRejected
       \/ ProcessAborted

EntryExit ==
    /\ batch.pc = "idle"
    /\ ProcessExit

EntryBatch ==
    /\ runs = 0
    /\ BatchStart

EntryNext ==
    \/ EntryCommand
    \/ EntryExit
    \/ EntryBatch
    \/ AlarmBatchFind
    \/ FocusBatchFind
    \/ BatchAttempt
    \/ AlarmBatchSettle
    \/ FocusBatchSettle
    \/ BatchDelay
    \/ CronBatchDelay
    \/ CronAttemptAlarm
    \/ CronAlarmSettle
    \/ CronAttemptFocus
    \/ CronFocusSettle
    \/ RunStep

EntrySpec == Init /\ [][EntryNext]_vars

\* one process command, and next to it a second invocation publishing with the same
\* account
ProcessOnce ==
    /\ runs = 0
    /\ \/ ProcessFocus
       \/ ProcessAlarm

ConcurrentNext ==
    \/ ProcessOnce
    \/ RunStep
    \/ PeerBegin
    \/ PeerGetNonce
    \/ PeerExecute
    \/ PeerWaitForTransaction

ConcurrentSpec == Init /\ [][ConcurrentNext]_vars

\* the calculator on its own: a leaf list is handed to the tree builder of its pool type
LeafAmounts == {0, 3}

\* identity keys of alarm leaves (addresses) and of focus leaves (address and session)
LeafAddresses == { GoodAddress(i) : i \in 1..MaxLeaves }
LeafSessions == { [address |-> GoodAddress(1 + (i % 2)), session_id |-> i] : i \in 1..MaxLeaves }

\* the lists of up to MaxLeaves elements of a set, without repetition
ListsOf(S) ==
    { list \in UNION { [1..len -> S] : len \in 0..MaxLeaves } :
        \A i, j \in 1..Len(list) : i # j => list[i] # list[j] }

AlarmLeafLists ==
    UNION { { [i \in 1..Len(keys) |->
                 [address |-> keys[i], hash |-> createMerkleLeaf(keys[i], amounts[i])]] :
              amounts \in [1..Len(keys) -> LeafAmounts] } : keys \in ListsOf(LeafAddresses) }

FocusLeafLists ==
    UNION { { [i \in 1..Len(keys) |->
                 [address |-> keys[i].address, session_id |-> keys[i].session_id,
                  hash |-> createFocusMerkleLeaf(keys[i].address, keys[i].session_id,
                                                 amounts[i])]] :
              amounts \in [1..Len(keys) -> LeafAmounts] } : keys \in ListsOf(LeafSessions) }

MerkleInit ==
    /\ alarms = {}
    /\ focus_locks = {}
    /\ wallets = {}
    /\ user_claim_data = <<>>
    /\ user_claim_data_locks = <<>>
    /\ env = CompleteEnv
    /\ chain = InitChain
    /\ trace = NoTrace
    /\ runs = 0
    /\ batch = IdleBatch
    /\ peer = IdlePeer
    /\ \/ \E leaves \in AlarmLeafLists :
             run = [IdleRun EXCEPT !.pc = "leaves", !.poolType = "alarm", !.leaves = leaves]
       \/ \E leaves \in FocusLeafLists :
             run = [IdleRun EXCEPT !.pc = "leaves", !.poolType = "focus", !.leaves = leaves]

BuildAlarmTree ==
    /\ run.pc = "leaves"
    /\ run.poolType = "alarm"
    /\ run' = [run EXCEPT !.pc = "built", !.merkleTree = buildMerkleTree(run.leaves)]
    /\ UNCHANGED <<alarms, focus_locks, wallets, user_claim_data, user_claim_data_locks,
                   env, chain, trace, runs, batch, peer>>

BuildFocusTree ==
    /\ run.pc = "leaves"
    /\ run.poolType = "focus"
    /\ run' = [run EXCEPT !.pc = "built", !.merkleTree = buildFocusMerkleTree(run.leaves)]
    /\ UNCHANGED <<alarms, focus_locks, wallets, user_claim_data, user_claim_data_locks,
                   env, chain, trace, runs, batch, peer>>

MerkleNext ==
    \/ BuildAlarmTree
    \/ BuildFocusTree

MerkleSpec == MerkleInit /\ [][MerkleNext]_vars

----------------------------------------------------------------------------
(* The calculator on its own: the reward functions applied to bounded       *)
(* participant lists and reward pools.                                      *)

MaxStakers == 3

CalcStakes == {0, 3, 7}
CalcLevels == {NULL, 0, 1, 2, 3, 4}
CalcPools == {0, 11, 100}
CalcDurations == {60, 120}

\* the participants of an alarm pool: one address per participant
AlarmUsers(stakes, levels) ==
    [i \in 1..Len(stakes) |->
        [address |-> GoodAddress(i), stake_amount |-> stakes[i],
         snooze_count |-> levels[i]]]

\* the locks of a focus pool: one session per lock, an address may hold several
FocusUsers(owners, stakes, durations, done) ==
    [i \in 1..Len(stakes) |->
        [address |-> GoodAddress(owners[i]), session_id |-> i,
         stake_amount |-> stakes[i], duration |-> durations[i],
         completion_status |-> done[i]]]

CalcRun(poolType, users, totalPoolReward) ==
    [pc |-> "inputs", poolType |-> poolType, users |-> users,
     totalPoolReward |-> totalPoolReward,
     stakeReturns |-> <<>>, totalSlashed |-> 0, rewards |-> <<>>]

CalculatorInit ==
    /\ alarms = {}
    /\ focus_locks = {}
    /\ wallets = {}
    /\ user_claim_data = <<>>
    /\ user_claim_data_locks = <<>>
    /\ env = CompleteEnv
    /\ chain = InitChain
    /\ trace = NoTrace
    /\ runs = 0
    /\ batch = IdleBatch
    /\ peer = IdlePeer
    /\ \E len \in 0..MaxStakers, pool \in CalcPools :
          \/ \E stakes \in [1..len -> CalcStakes], levels \in [1..len -> CalcLevels] :
                run = CalcRun("alarm", AlarmUsers(stakes, levels), pool)
          \/ \E owners \in [1..len -> 1..2], stakes \in [1..len -> {0, 7}],
                durations \in [1..len -> CalcDurations], done \in [1..len -> BOOLEAN] :
                run = CalcRun("focus", FocusUsers(owners, stakes, durations, done), pool)

CalculateAlarm ==
    /\ run.pc = "inputs"
    /\ run.poolType = "alarm"
    /\ run' = [run EXCEPT
                 !.pc = "calculated",
                 !.stakeReturns =
                     [i \in 1..Len(run.users) |->
                        calculateStakeReturn(run.users[i].stake_amount,
                                             OrZero(run.users[i].snooze_count))],
                 !.totalSlashed = calculateTotalSlashed(run.users),
                 !.rewards = calculateRewards(run.users, run.totalPoolReward)]
    /\ UNCHANGED <<alarms, focus_locks, wallets, user_claim_data, user_claim_data_locks,
                   env, chain, trace, runs, batch, peer>>

CalculateFocus ==
    /\ run.pc = "inputs"
    /\ run.poolType = "focus"
    /\ run' = [run EXCEPT
                 !.pc = "calculated",
                 !.totalSlashed = calculateFocusTotalSlashed(run.users),
                 !.rewards = calculateFocusRewards(run.users, run.totalPoolReward)]
    /\ UNCHANGED <<alarms, focus_locks, wallets, user_claim_data, user_claim_data_locks,
                   env, chain, trace, runs, batch, peer>>

CalculatorNext ==
    \/ CalculateAlarm
    \/ CalculateFocus

CalculatorSpec == CalculatorInit /\ [][CalculatorNext]_vars

----------------------------------------------------------------------------
(* The pool discovery on its own: the two finders applied to tables whose   *)
(* rows lie around the 48 hour cutoff.                                      *)

\* wakeup and start times: the first and the last second of the window (1, 0), the
\* first second of (1, 1), and a second of (2, 0)
FinderTimes ==
    {calculateTimeRange(1, 0).periodStart, calculateTimeRange(1, 0).periodEnd - 1,
     calculateTimeRange(1, 1).periodStart, calculateTimeRange(2, 0).periodStart + 1}

\* Date.now() of the discovery: the cutoff falls on the last second of the window
\* (1, 0), on its end, and 50 seconds after its end
FinderClocks ==
    { (calculateTimeRange(1, 0).periodEnd + 48 * 3600 + d) * 1000 + 999 : d \in {-1, 0, 50} }

\* the period column of a lock: the 12 hour period of its start, or, for a lock
\* written under the old 6 hour scheme in the second half of a day, the values 2 and 3
PeriodColumn(start_time, legacy) ==
    IF legacy /\ (start_time % SECONDS_PER_DAY) \div SECONDS_PER_PERIOD = 1
    THEN (start_time % SECONDS_PER_DAY) \div (SECONDS_PER_PERIOD \div 2)
    ELSE calculatePoolInfo(start_time).period

FinderAlarmRows(times) ==
    { [id |-> i, user_id |-> i, wakeup_time |-> times[i],
       stake_amount |-> 1, snooze_count |-> 0, alarm_id |-> i,
       deleted |-> FALSE, claim_ready |-> FALSE, has_claimed |-> FALSE] :
      i \in DOMAIN times }

FinderFocusRows(times, minutes, legacy) ==
    { [id |-> i, user_id |-> i,
       day |-> calculatePoolInfo(times[i]).day,
       period |-> PeriodColumn(times[i], legacy[i]),
       start_time |-> times[i],
       duration_minutes |-> minutes[i],
       stake_amount |-> 1, completion_status |-> TRUE, lock_id |-> i,
       claim_ready |-> FALSE, has_claimed |-> FALSE] :
      i \in DOMAIN times }

\* a process-all command that has reached its finder
FinderBatch(poolType, clockMs) ==
    [IdleBatch EXCEPT !.pc = "find",
                      !.entry = IF poolType = "focus" THEN "focus process-all"
                                ELSE "alarm process-all",
                      !.poolType = poolType, !.clockMs = clockMs]

FinderInit ==
    /\ wallets = {}
    /\ user_claim_data = <<>>
    /\ user_claim_data_locks = <<>>
    /\ env = CompleteEnv
    /\ chain = InitChain
    /\ run = IdleRun
    /\ trace = NoTrace
    /\ runs = 0
    /\ peer = IdlePeer
    /\ \E n \in 0..MaxUsers, clockMs \in FinderClocks :
          \E times \in [1..n -> FinderTimes] :
             \/ /\ alarms = FinderAlarmRows(times)
                /\ focus_locks = {}
                /\ batch = FinderBatch("alarm", clockMs)
             \/ \E minutes \in [1..n -> 1..2], legacy \in [1..n -> BOOLEAN] :
                   /\ alarms = {}
                   /\ focus_locks = FinderFocusRows(times, minutes, legacy)
                   /\ batch = FinderBatch("focus", clockMs)

FinderNext ==
    \/ AlarmBatchFind
    \/ FocusBatchFind

FinderSpec == FinderInit /\ [][FinderNext]_vars

----------------------------------------------------------------------------
(* The pool keys on their own: calculatePoolInfo and calculateTimeRange      *)
(* applied to timestamps of the first days.                                 *)

MaxDays == 5

\* seconds of a day: around its start, mid-morning, around noon and its last second
DaySeconds == {0, 1, SECONDS_PER_PERIOD \div 2, SECONDS_PER_PERIOD - 1, SECONDS_PER_PERIOD,
               SECONDS_PER_PERIOD + 1, SECONDS_PER_DAY - 1}

Timestamps == { day * SECONDS_PER_DAY + second : day \in 0..MaxDays, second \in DaySeconds }

PoolKeyRun(timestamp) ==
    [pc |-> "timestamp", timestamp |-> timestamp,
     poolInfo |-> [day |-> 0, period |-> 0],
     timeRange |-> [periodStart |-> 0, periodEnd |-> 0],
     poolInfoOfStart |-> [day |-> 0, period |-> 0]]

PoolKeyInit ==
    /\ alarms = {}
    /\ focus_locks = {}
    /\ wallets = {}
    /\ user_claim_data = <<>>
    /\ user_claim_data_locks = <<>>
    /\ env = CompleteEnv
    /\ chain = InitChain
    /\ trace = NoTrace
    /\ runs = 0
    /\ batch = IdleBatch
    /\ peer = IdlePeer
    /\ \E timestamp \in Timestamps : run = PoolKeyRun(timestamp)

ApplyPoolInfo ==
    /\ run.pc = "timestamp"
    /\ run' = [run EXCEPT !.pc = "key", !.poolInfo = calculatePoolInfo(run.timestamp)]
    /\ UNCHANGED <<alarms, focus_locks, wallets, user_claim_data, user_claim_data_locks,
                   env, chain, trace, runs, batch, peer>>

ApplyTimeRange ==
    /\ run.pc = "key"
    /\ LET timeRange == calculateTimeRange(run.poolInfo.day, run.poolInfo.period)
       IN run' = [run EXCEPT !.pc = "window",
                             !.timeRange = timeRange,
                             !.poolInfoOfStart = calculatePoolInfo(timeRange.periodStart)]
    /\ UNCHANGED <<alarms, focus_locks, wallets, user_claim_data, user_claim_data_locks,
                   env, chain, trace, runs, batch, peer>>

PoolKeyNext ==
    \/ ApplyPoolInfo
    \/ ApplyTimeRange

PoolKeySpec == PoolKeyInit /\ [][PoolKeyNext]_vars

----------------------------------------------------------------------------
(* The cron handler on its schedule: calculatePoolToProcess at clocks around *)
(* the scheduled times of the first days, and the time buffer check of the  *)
(* focus run that follows.                                                  *)

\* seconds of a day: the two scheduled times, the second before each, the ends of the
\* two half-days and their first seconds
ScheduleSeconds == {0, TIME_BUFFER_SECONDS - 1, TIME_BUFFER_SECONDS, SECONDS_PER_PERIOD - 1,
                    SECONDS_PER_PERIOD, SECONDS_PER_PERIOD + TIME_BUFFER_SECONDS - 1,
                    SECONDS_PER_PERIOD + TIME_BUFFER_SECONDS, SECONDS_PER_DAY - 1}

\* clocks in milliseconds: the first and the last millisecond of those seconds
ScheduleClocks == { (day * SECONDS_PER_DAY + second) * 1000 + ms :
                       day \in 1..MaxDays, second \in ScheduleSeconds, ms \in {0, 999} }

ScheduleInit ==
    /\ alarms = {}
    /\ focus_locks = {}
    /\ wallets = {}
    /\ user_claim_data = <<>>
    /\ user_claim_data_locks = <<>>
    /\ env = CompleteEnv
    /\ chain = InitChain
    /\ run = IdleRun
    /\ trace = NoTrace
    /\ runs = 0
    /\ peer = IdlePeer
    /\ \E clockMs \in ScheduleClocks, force \in BOOLEAN :
          batch = [IdleBatch EXCEPT !.entry = "processCronPools", !.pc = "schedule",
                                    !.force = force, !.clockMs = clockMs]

\* processCronPools: const pool = calculatePoolToProcess()
CronPickPool ==
    /\ batch.pc = "schedule"
    /\ batch' = [batch EXCEPT !.pc = "cronPool",
                              !.pools = <<calculatePoolToProcess(batch.clockMs)>>]
    /\ UNCHANGED <<alarms, focus_locks, wallets, user_claim_data, user_claim_data_locks,
                   env, chain, run, trace, runs, peer>>

\* processCronPools: processFocusLockPool(pool.day, pool.period, force) is entered, at
\* once or after the delay between the pool types, and makes its time buffer check
CronStartFocus ==
    /\ batch.pc = "cronPool"
    /\ \E elapsedMs \in {0, PROCESSING_DELAY_MS} :
          FocusStart(batch.pools[1].day, batch.pools[1].period, batch.force,
                     batch.clockMs + elapsedMs)
    /\ batch' = [batch EXCEPT !.pc = "cronAwaitFocus", !.poolType = "focus"]
    /\ UNCHANGED peer

ScheduleNext ==
    \/ CronPickPool
    \/ CronStartFocus

ScheduleSpec == ScheduleInit /\ [][ScheduleNext]_vars

----------------------------------------------------------------------------
(* Vocabulary of the properties *)

StorageWrites == {"update", "insert"}
LedgerCalls == {"getNonce", "execute", "waitForTransaction", "callContract"}
PhaseOrder == <<"CHECK_TIMING", "FETCH", "VALIDATE", "COMPUTE", "COMMIT", "PUBLISH",
                "SIGN_AND_PERSIST", "DONE">>

Issued(names) == \E i \in 1..Len(trace.calls) : trace.calls[i] \in names
Entered(phase) == InSeq(phase, trace.phases)

\* the run has ended by throwing
RunFailed == run.pc = "ended" /\ run.thrown # {} /\ run.returned = {}

ComputedRoot == BigIntOfHex(run.merkleTree.root)

\* setMerkleRootOnChain has returned in this run: its four ledger calls were made
\* in order and none failed, the receipt reported no status other than SUCCEEDED,
\* and the root read back equals the computed root
SetMerkleRootReturned ==
    /\ SelectSeq(trace.calls, LAMBDA c : c \in LedgerCalls)
          = <<"getNonce", "execute", "waitForTransaction", "callContract">>
    /\ trace.failed \notin LedgerCalls
    /\ run.receipt \in {"SUCCEEDED", "absent"}
    /\ trace.onChainRead # {}
    /\ trace.onChainRead = {ComputedRoot}

----------------------------------------------------------------------------
(* Properties of a pool run *)

C3_RootMismatchIsFatal ==
    (run.receipt = "SUCCEEDED" /\ \E v \in trace.onChainRead : v # ComputedRoot)
        => /\ RunFailed
           /\ run.thrown = {"Blockchain finalization required before database storage"}
           /\ ~Entered("SIGN_AND_PERSIST")
           /\ ~Issued(StorageWrites)

\* a focus run that read back another root than the one it had just published
C3_Witness ==
    /\ run.poolType = "focus"
    /\ run.receipt = "SUCCEEDED"
    /\ \E v \in trace.onChainRead : v # ComputedRoot

\* the users the validation is said to reject
C4_Rejected(users) ==
    \E i \in 1..Len(users) :
        \/ users[i].address = <<>>
        \/ Len(users[i].address) < 2
        \/ users[i].address[1] # "0"
        \/ users[i].address[2] # "x"
        \/ users[i].stake_amount < 0
        \/ users[i].stake_amount >= U256Limit

\* C4: once the validation has run over users of which one has an empty address, an
\* address without the 0x prefix or a stake outside [0, 2^256), the run has ended by
\* throwing, with the fetch as its only external call (no ledger call, no storage
\* write); and the validation step changes neither the storage nor the ledger.
C4_ValidationFailsClean ==
    /\ [](Entered("VALIDATE") /\ C4_Rejected(run.users)
            => /\ RunFailed
               /\ trace.calls = <<"fetch">>
               /\ trace.phases = <<"CHECK_TIMING", "FETCH", "VALIDATE">>)
    /\ [][run.pc = "validate"
            => UNCHANGED <<alarms, focus_locks, wallets, user_claim_data,
                           user_claim_data_locks, chain>>]_vars

\* a focus run that ended in the validation of a rejected participant
C4_Witness ==
    /\ run.poolType = "focus"
    /\ Entered("VALIDATE")
    /\ C4_Rejected(run.users)
    /\ RunFailed

\* C5: the phases a run has entered are always an initial part of timing check,
\* fetch, validate, compute, commit, publish, sign and persist, done (so none is
\* entered twice or ahead of its predecessor); a run in progress has no outcome, and
\* an ended run has exactly one: success after all eight phases, the too-early skip
\* after the timing check, the empty skip after the fetch, or a thrown error.
C5_PhasesInOrder ==
    /\ Len(trace.phases) <= Len(PhaseOrder)
    /\ trace.phases = SubSeq(PhaseOrder, 1, Len(trace.phases))
    /\ run.pc # "ended" => run.returned = {} /\ run.thrown = {}
    /\ run.pc = "ended" =>
          /\ Cardinality(run.returned) + Cardinality(run.thrown) = 1
          /\ \A r \in run.returned :
                IF r.success THEN trace.phases = PhaseOrder
                ELSE \/ /\ r.message.text = "Too early to process"
                        /\ trace.phases = <<"CHECK_TIMING">>
                     \/ /\ r.message.text \in {"No focus locks in pool", "No alarms in pool"}
                        /\ trace.phases = <<"CHECK_TIMING", "FETCH">>

\* a focus run that went through every phase up to the storage step and ended
C5_Witness ==
    /\ run.poolType = "focus"
    /\ run.pc = "ended"
    /\ trace.phases = SubSeq(PhaseOrder, 1, 7)

\* C6: a run that has ended after its publish returned and in which no external
\* call failed has returned success=true with a pool summary carrying the computed
\* root, the transaction id of the ledger, the participant count and the number of
\* reward shares.
C6_HappyPathSucceeds ==
    (run.pc = "ended" /\ SetMerkleRootReturned /\ trace.failed = "")
        => \E r \in run.returned :
              /\ r.success
              /\ r.transaction_hash = {run.txHash}
              /\ \E p \in r.pool_info :
                    /\ p.merkle_root = run.merkleTree.root
                    /\ p.transaction_hash = run.txHash
                    /\ p.total_users = Len(run.users)
                    /\ p.winners = Len(run.rewards)

\* C7: a run of a pool type whose signer is not usable (for focus pools: the
\* configuration is absent, or the voucher signer is unavailable) issues no external
\* call at all (no fetch, no ledger call, no storage write), and what it throws is
\* the not-configured error.
C7_NotConfiguredFailsFast ==
    (run.poolType = "focus" /\ (~getFocusConfig \/ createFocusOutcomeSignatureThrows))
        => /\ trace.calls = <<>>
           /\ run.thrown \subseteq {"Focus lock configuration not available"}

\* C8: after any sequence of runs, storage holds at most one claim row per
\* participant record (an alarm or a focus lock, each of which belongs to one pool).
C8_OneClaimPerParticipant ==
    /\ \A i, j \in 1..Len(user_claim_data) :
          user_claim_data[i].alarm_id = user_claim_data[j].alarm_id => i = j
    /\ \A i, j \in 1..Len(user_claim_data_locks) :
          user_claim_data_locks[i].focus_lock_id = user_claim_data_locks[j].focus_lock_id
            => i = j

\* the table the storage step of the run updates
C9_Table == IF run.poolType = "alarm" THEN alarms ELSE focus_locks

\* C9: when the update of the k-th record fails, the run has ended by throwing the
\* update error; the k-1 earlier updates are in the table, the claim tables hold
\* the rows they held when the run began and no insert was issued, and the ledger
\* is as the storage step found it: the failed update is the last external call.
C9_PartialUpdateFailure ==
    trace.failed = "update"
        => /\ RunFailed
           /\ run.thrown = {"Failed to update record"}
           /\ Len(SelectSeq(trace.calls, LAMBDA c : c = "update")) = run.updated + 1
           /\ \A k \in 1..run.updated :
                 \E row \in C9_Table :
                    row.id = run.updates[k].id /\ row.claim_ready /\ ~row.has_claimed
           /\ ~Issued({"insert"})
           /\ <<Len(user_claim_data), Len(user_claim_data_locks)>> = trace.claimRows
           /\ chain = trace.chainAtStore
           /\ trace.calls[Len(trace.calls)] = "update"

\* the second update of a run failed after the first one was applied
C9_Witness ==
    /\ trace.failed = "update"
    /\ run.updated = 1
    /\ Len(run.updates) >= 2

\* the moment a pool is ready and the moment the run reads from the clock
C10_ReadyTime ==
    run.day * SECONDS_PER_DAY + run.period * SECONDS_PER_PERIOD + SECONDS_PER_PERIOD + 1800
C10_Now == run.clockMs \div 1000

\* the outcome of the timing check: the skip, or the way on to the fetch
C10_Gate ==
    IF ~run.force /\ C10_Now < C10_ReadyTime
    THEN /\ run.pc = "ended"
         /\ run.thrown = {}
         /\ \E r \in run.returned :
               /\ ~r.success
               /\ r.message.text = "Too early to process"
               /\ r.message.delta = C10_ReadyTime - C10_Now
         /\ trace.calls = <<>>
    ELSE run.pc = "fetch" \/ Entered("FETCH")

\* C10 as stated: every run that was started skips with the remaining seconds when
\* it is too early and not forced, and goes on to the fetch otherwise.
C10_TimingGateAlways == run.pc # "idle" => C10_Gate

\* C10: a run whose pool type is configured skips with the remaining seconds when
\* it is too early and not forced, and goes on to the fetch otherwise; a focus run
\* without focus configuration throws the not-configured error before the timing
\* check, whatever the time and force.
C10_TimingGate ==
    run.pc # "idle"
        => IF run.poolType = "focus" /\ ~getFocusConfig
           THEN /\ RunFailed
                /\ run.thrown = {"Focus lock configuration not available"}
                /\ trace.phases = <<>>
                /\ trace.calls = <<>>
           ELSE C10_Gate

\* a configured focus run that was started one second early and skipped
C10_Witness ==
    /\ run.poolType = "focus"
    /\ getFocusConfig
    /\ ~run.force
    /\ C10_ReadyTime - C10_Now = 1
    /\ run.pc = "ended"

\* C11: when the participant fetch returned zero participants, the run has ended as
\* an empty-pool skip: it returned a non-success result and did not throw, the fetch
\* is its only external call (no ledger call, no storage write), and storage and
\* ledger are as the run found them.
C11_EmptyPoolSkips ==
    (Entered("FETCH") /\ trace.failed = "" /\ run.users = <<>>) =>
        /\ run.pc = "ended"
        /\ run.thrown = {}
        /\ \E result \in run.returned :
              /\ ~result.success
              /\ result.message.text \in {"No focus locks in pool", "No alarms in pool"}
              /\ result.transaction_hash = {}
        /\ trace.calls = <<"fetch">>
        /\ ~Issued(LedgerCalls \cup StorageWrites)
        /\ trace.claimRows = <<Len(user_claim_data), Len(user_claim_data_locks)>>

\* a focus run whose fetch found the pool empty and that ended as a skip
C11_Witness ==
    /\ run.poolType = "focus"
    /\ run.pc = "ended"
    /\ trace.calls = <<"fetch">>
    /\ trace.failed = ""
    /\ fetchFocusLocksFromPool(run.day, run.period) = <<>>
    /\ \E result \in run.returned : result.message.text = "No focus locks in pool"

----------------------------------------------------------------------------
(* Vocabulary of the batch properties *)

BatchDrivers == {"alarm process-all", "focus process-all", "processAllCronPools"}

\* the pools of the list whose run the driver has started, and those it has recorded
Started(b) == IF b.pc \in {"await", "delay"} THEN b.i + 1 ELSE b.i
Recorded(b) == IF b.pc = "delay" THEN b.i + 1 ELSE b.i

\* the driver at work on the list has returned its result
DriverReturned == batch.pc \in {"cronDelay", "ended"} /\ batch.thrown = {}

\* the per-pool entries the driver keeps for the pools that did not succeed
ReasonEntries(b) ==
    IF b.poolType = "alarm"
    THEN SelectSeq([k \in 1..Len(b.results) |->
                      [day |-> b.results[k].day, period |-> b.results[k].period,
                       reason |-> b.results[k].message,
                       success |-> b.results[k].success]],
                   LAMBDA e : ~e.success)
    ELSE [k \in 1..Len(b.failedPools) |->
             [day |-> b.failedPools[k].day, period |-> b.failedPools[k].period,
              reason |-> b.failedPools[k].reason, success |-> FALSE]]
         \o [k \in 1..Len(b.skippedPools) |->
                [day |-> b.skippedPools[k].day, period |-> b.skippedPools[k].period,
                 reason |-> b.skippedPools[k].reason, success |-> FALSE]]

\* C12: in processAllAlarmPools and processAllFocusLockPools the pools attempted so
\* far are always the first pools of the discovered list, each once and in list order;
\* every pool that was recorded and did not succeed has an entry with its pool key and
\* a reason, whatever the outcomes were; and when the driver has returned, the pools
\* attempted are the whole list.
C12_DrainsListInOrder ==
    batch.entry \in BatchDrivers =>
        /\ Started(batch) <= Len(batch.pools)
        /\ batch.attempted = SubSeq(batch.pools, 1, Started(batch))
        /\ batch.successCount + Len(ReasonEntries(batch)) = Recorded(batch)
        /\ \A k \in 1..Len(ReasonEntries(batch)) :
              /\ ReasonEntries(batch)[k].reason # ""
              /\ InSeq([day |-> ReasonEntries(batch)[k].day,
                        period |-> ReasonEntries(batch)[k].period], batch.attempted)
        /\ DriverReturned => batch.attempted = batch.pools

\* processAllFocusLockPools returned after two pools: the run of the first pool threw,
\* and the second pool was attempted all the same
C12_Witness ==
    /\ batch.entry = "focus process-all"
    /\ DriverReturned
    /\ Len(batch.pools) = 2
    /\ batch.attempted = batch.pools
    /\ Len(batch.failedPools) >= 1
    /\ batch.failedPools[1].day = batch.pools[1].day
    /\ batch.failedPools[1].period = batch.pools[1].period
    /\ batch.failCount + batch.skippedCount = 2

\* the entries kept for the pool with the given key
EntriesOf(b, pool) ==
    { k \in 1..Len(ReasonEntries(b)) :
        ReasonEntries(b)[k].day = pool.day /\ ReasonEntries(b)[k].period = pool.period }

\* succeeded + failed + skipped = total in a summary of processAllCronPools
CronSummaryAdds(summary) == summary.success + summary.failed + summary.skipped = summary.total

\* C13: when a batch driver has returned, succeeded + failed + skipped equals the total,
\* which is the number of pools discovered; every pool of the list has one recorded
\* outcome; and a pool has exactly one reason entry when it did not succeed and none
\* when it succeeded.  The summaries returned by processAllCronPools add up likewise.
C13_CountersAccountForEveryPool ==
    (batch.entry \in BatchDrivers /\ DriverReturned) =>
        /\ batch.successCount + batch.failCount + batch.skippedCount = Len(batch.pools)
        /\ Len(batch.outcomes) = Len(batch.pools)
        /\ \A k \in 1..Len(batch.pools) :
              Cardinality(EntriesOf(batch, batch.pools[k]))
                 = IF batch.outcomes[k] = "success" THEN 0 ELSE 1
        /\ \A result \in batch.returned :
              CASE batch.entry = "alarm process-all" ->
                      /\ result.success + result.failed = result.total
                      /\ result.total = Len(batch.pools)
                      /\ Len(result.results) = result.total
                [] batch.entry = "focus process-all" ->
                      /\ result.successCount + result.failCount + result.skippedCount
                            = result.totalPools
                      /\ result.totalPools = Len(batch.pools)
                      /\ Len(result.failedPools) = result.failCount
                      /\ Len(result.skippedPools) = result.skippedCount
                [] OTHER ->
                      /\ CronSummaryAdds(result.alarm)
                      /\ CronSummaryAdds(result.focus)
                      /\ result.focus.total = Len(batch.pools)

\* processAllFocusLockPools returned after two pools, one failed and one skipped
C13_Witness ==
    /\ batch.entry = "focus process-all"
    /\ DriverReturned
    /\ Len(batch.pools) = 2
    /\ batch.failCount = 1
    /\ batch.skippedCount = 1
    /\ \E result \in batch.returned : result.totalPools = 2

\* the messages of the two skips of a pool run
SkipMessages == {"Too early to process", "No focus locks in pool", "No alarms in pool"}

\* the pools of the list whose run ended with one of the given outcomes
PoolsEnded(b, outcomes) == { k \in 1..Len(b.outcomes) : b.outcomes[k] \in outcomes }

\* C14: when a batch driver has returned, the pools whose run ended as a too-early or
\* empty-pool skip are counted as skipped and not as failed, and when no pool run of
\* the list threw, the exit code of the process-all command is 0.
C14_SkipsAreNotFailures ==
    (batch.entry \in BatchDrivers /\ DriverReturned) =>
        /\ batch.failCount = Cardinality(PoolsEnded(batch, {"threw"}))
        /\ batch.skippedCount = Cardinality(PoolsEnded(batch, SkipMessages))
        /\ PoolsEnded(batch, {"threw"}) = {} => \A code \in batch.exitCode : code = 0

\* C15: under the batch drivers and the cron entry points a pool run is started only
\* when the run before it has returned or thrown and no ledger transaction is waiting
\* for its confirmation, and at no time is more than one transaction in flight.
C15_PoolRunsNeverOverlap ==
    /\ [](Len(chain.pending) <= 1)
    /\ [][runs' > runs => (run.pc \in {"idle", "ended"} /\ chain.pending = <<>>)]_vars

\* the second run of processCronPools has a transaction in flight after the first
\* run published its own
C15_Witness ==
    /\ batch.entry = "processCronPools"
    /\ batch.pc = "cronAwaitFocus"
    /\ runs = 2
    /\ run.pc = "waitForTransaction"
    /\ Len(chain.pending) = 1
    /\ chain.submitted = <<0, 1>>

\* C16: every submission carries the nonce the account held when the submitter read it
\* just before, and no two submissions carry the same nonce, also when two invocations
\* publish with the same account at the same time.
C16_NoNonceUsedTwice ==
    \A i, j \in 1..Len(chain.submitted) :
        i # j => chain.submitted[i] # chain.submitted[j]

----------------------------------------------------------------------------
(* Properties of the merkle commitment *)

\* the identity key of a leaf: the address, for a focus leaf the address and the session
LeafKey(leaf) ==
    IF "session_id" \in DOMAIN leaf THEN FocusKey(leaf.address, leaf.session_id)
    ELSE leaf.address

LeafKeys(leaves) == { LeafKey(leaves[i]) : i \in 1..Len(leaves) }

\* the verifier's fold: the hash is combined with each proof entry in order as H(min, max)
RECURSIVE FoldProof(_, _)
FoldProof(h, proof) ==
    IF proof = <<>> THEN h
    ELSE LET sibling == BigIntOfHex(Head(proof))
             lo == IF h < sibling THEN h ELSE sibling
             hi == IF h < sibling THEN sibling ELSE h
         IN FoldProof(BigIntOfHex(computePoseidonHashOnElements(<<lo, hi>>)), Tail(proof))

\* a tree has been built over the leaf list of the state
TreeBuilt == run.pc = "built"

\* C17: for a built tree over at least one leaf, folding the hash of any leaf with the
\* entries of its proof, in order and as H(min, max), gives the root of the tree; this
\* covers zero-reward leaves and lists with an odd-count level.
C17_ProofsFoldToRoot ==
    (TreeBuilt /\ Len(run.leaves) >= 1) =>
        \A i \in 1..Len(run.leaves) :
            /\ LeafKey(run.leaves[i]) \in DOMAIN run.merkleTree.proofs
            /\ FoldProof(BigIntOfHex(run.leaves[i].hash),
                         run.merkleTree.proofs[LeafKey(run.leaves[i])])
                  = BigIntOfHex(run.merkleTree.root)

\* a tree over three leaves, the first of them with reward 0, whose third leaf is
\* paired with itself
C17_Witness ==
    /\ TreeBuilt
    /\ run.poolType = "alarm"
    /\ Len(run.leaves) = 3
    /\ run.leaves[1].hash = createMerkleLeaf(run.leaves[1].address, 0)
    /\ run.merkleTree.proofs[run.leaves[3].address][1] = run.leaves[3].hash
    /\ Len(run.merkleTree.proofs[run.leaves[1].address]) = 2

\* the orderings of a leaf list
Orderings(leaves) ==
    { [i \in 1..Len(leaves) |-> leaves[perm[i]]] :
        perm \in { f \in [1..Len(leaves) -> 1..Len(leaves)] :
                     \A i, j \in 1..Len(leaves) : i # j => f[i] # f[j] } }

\* C18: the root of a built tree is the root the builder returns for every other
\* ordering of the same leaves.
C18_RootIgnoresLeafOrder ==
    TreeBuilt =>
        \A reordered \in Orderings(run.leaves) :
            (IF run.poolType = "alarm" THEN buildMerkleTree(reordered)
             ELSE buildFocusMerkleTree(reordered)).root = run.merkleTree.root

\* C19: the proofs of a built tree have exactly the identity keys of the leaves as
\* their keys, the keys of zero-reward leaves included.
C19_OneProofPerLeaf ==
    TreeBuilt => DOMAIN run.merkleTree.proofs = LeafKeys(run.leaves)

\* a tree over a single leaf with reward 0, and its one proof entry
C19_Witness ==
    /\ TreeBuilt
    /\ run.poolType = "alarm"
    /\ Len(run.leaves) = 1
    /\ run.leaves[1].hash = createMerkleLeaf(run.leaves[1].address, 0)
    /\ DOMAIN run.merkleTree.proofs = {run.leaves[1].address}

----------------------------------------------------------------------------
(* Properties of the leaves of a pool run *)

\* the reward shares with the identity key of a participant
SharesOf(user) ==
    { k \in 1..Len(run.rewards) :
        /\ run.rewards[k].address = user.address
        /\ run.rewards[k].session_id = user.session_id }

\* the amount a participant is entitled to: that of its share, 0 when it has none
LeafAmount(user) ==
    IF SharesOf(user) = {} THEN 0
    ELSE run.rewards[CHOOSE k \in SharesOf(user) : TRUE].reward_amount

\* C20: once a focus pool run has built its commitment, its leaves are one per fetched
\* participant, in the order of the fetch; the leaf of a participant carries its
\* identity key and the hash over that key and the amount of the reward share with the
\* same address and session id, or over the amount 0 when there is no such share; and
\* the tree has been built over exactly these leaves.
C20_OneLeafPerParticipant ==
    (run.poolType = "focus" /\ Entered("COMMIT")) =>
        /\ Len(run.leaves) = Len(run.users)
        /\ \A i \in 1..Len(run.users) :
              /\ run.leaves[i].address = run.users[i].address
              /\ run.leaves[i].session_id = run.users[i].session_id
              /\ run.leaves[i].hash
                    = createFocusMerkleLeaf(run.users[i].address, run.users[i].session_id,
                                            LeafAmount(run.users[i]))
        /\ run.merkleTree = buildFocusMerkleTree(run.leaves)

\* a focus run with a winner and a non-winner of the same address: the winner's leaf
\* carries its share, the other one the amount 0
C20_Witness ==
    /\ run.poolType = "focus"
    /\ Entered("COMMIT")
    /\ \E i, j \in 1..Len(run.users) :
          /\ run.users[i].address = run.users[j].address
          /\ LeafAmount(run.users[i]) > 0
          /\ SharesOf(run.users[j]) = {}
          /\ run.leaves[j].hash
                = createFocusMerkleLeaf(run.users[j].address, run.users[j].session_id, 0)
          /\ run.leaves[j].hash # run.leaves[i].hash

----------------------------------------------------------------------------
(* The proof entries, level by level *)

\* the number of nodes of level k over n leaves (level 0 holds the leaves)
RECURSIVE LevelSize(_, _)
LevelSize(n, k) == IF k = 0 THEN n ELSE (LevelSize(n, k - 1) + 1) \div 2

\* the number of levels below the root
RECURSIVE Height(_, _)
Height(n, k) == IF LevelSize(n, k) <= 1 THEN k ELSE Height(n, k + 1)

\* the hash of node j of level k: a leaf hash, or H(min, max) over its two children,
\* the last node of an odd-count level being combined with itself
RECURSIVE NodeHash(_, _, _)
NodeHash(leaves, k, j) ==
    IF k = 0 THEN BigIntOfHex(leaves[j].hash)
    ELSE LET a == NodeHash(leaves, k - 1, 2 * j - 1)
             b == IF 2 * j <= LevelSize(Len(leaves), k - 1)
                  THEN NodeHash(leaves, k - 1, 2 * j) ELSE a
             lo == IF a < b THEN a ELSE b
             hi == IF a < b THEN b ELSE a
         IN BigIntOfHex(computePoseidonHashOnElements(<<lo, hi>>))

\* the node of level k above leaf i, and the node it is paired with (itself when it is
\* the last node of an odd-count level)
NodeAbove(i, k) == ((i - 1) \div (2 ^ k)) + 1
PairedWith(n, i, k) ==
    LET j == NodeAbove(i, k)
    IN IF j % 2 = 0 THEN j - 1 ELSE IF j + 1 <= LevelSize(n, k) THEN j + 1 ELSE j

\* the proof of leaf i of the built tree, as numbers
ProofNumbers(i) ==
    LET proof == run.merkleTree.proofs[LeafKey(run.leaves[i])]
    IN [k \in 1..Len(proof) |-> BigIntOfHex(proof[k])]

\* the hashes of the nodes the nodes above leaf i were paired with, level by level,
\* and those of them that belong to a pairing of two distinct nodes
PairingHashes(i) ==
    [k \in 1..Height(Len(run.leaves), 0) |->
        NodeHash(run.leaves, k - 1, PairedWith(Len(run.leaves), i, k - 1))]
DistinctPairingHashes(i) ==
    LET levels == SelectSeq([k \in 1..Height(Len(run.leaves), 0) |-> k],
                            LAMBDA k : PairedWith(Len(run.leaves), i, k - 1)
                                          # NodeAbove(i, k - 1))
    IN [m \in 1..Len(levels) |-> PairingHashes(i)[levels[m]]]

\* C21 as stated: the proof of every leaf holds the hash of the other side of each
\* pairing of two distinct nodes above it, and nothing for a self-pairing.
C21_SelfPairingAddsNothing ==
    TreeBuilt => \A i \in 1..Len(run.leaves) : ProofNumbers(i) = DistinctPairingHashes(i)

\* C21: the proof of every leaf holds one entry per level: the hash of the other side
\* when the node above the leaf was paired with a distinct node, and the hash of the
\* node itself when it was paired with itself as the last node of an odd-count level.
C21_OneEntryPerPairing ==
    TreeBuilt => \A i \in 1..Len(run.leaves) : ProofNumbers(i) = PairingHashes(i)

\* a tree over three leaves: the third leaf was paired with itself and its proof
\* starts with its own hash, followed by the hash of the node over the first two
C21_Witness ==
    /\ TreeBuilt
    /\ Len(run.leaves) = 3
    /\ PairedWith(3, 3, 0) = NodeAbove(3, 0)
    /\ ProofNumbers(3) = <<BigIntOfHex(run.leaves[3].hash), NodeHash(run.leaves, 1, 1)>>
    /\ ProofNumbers(1) = <<BigIntOfHex(run.leaves[2].hash), NodeHash(run.leaves, 1, 2)>>


----------------------------------------------------------------------------
(* The protocol fee of a pool run *)

\* the winners of the run and their weights: the stake in an alarm pool, stake
\* times duration in a focus pool
RunWinners ==
    IF run.poolType = "focus"
    THEN SelectSeq(run.users, LAMBDA u : u.completion_status = TRUE)
    ELSE SelectSeq(run.users, LAMBDA u : u.snooze_count = 0)

WinnerWeight(u) ==
    IF run.poolType = "focus" THEN u.stake_amount * u.duration ELSE u.stake_amount

TotalWinnerWeight == SumSeq([i \in 1..Len(RunWinners) |-> WinnerWeight(RunWinners[i])])

\* the run has computed its rewards and not yet gone on
RewardsComputed == run.pc = "commit" /\ run.poolType \in {"alarm", "focus"}

\* the worked example: stakes 100, 100, 100 with penalty levels 0, 1, 3
ExampleUsers ==
    << [address |-> GoodAddress(1), stake_amount |-> 100, snooze_count |-> 0],
       [address |-> GoodAddress(2), stake_amount |-> 100, snooze_count |-> 1],
       [address |-> GoodAddress(3), stake_amount |-> 100, snooze_count |-> 3] >>

\* C22: in a pool run the 10% fee is taken once: protocolFee is
\* floor(totalSlashed*10/100), the published new rewards are totalSlashed minus
\* that fee, and the share of every winner is floor(newRewards * weight / sum
\* of the winner weights); in the worked example the single winner gets 108
C22_FeeTakenOnce ==
    /\ RewardsComputed =>
         /\ run.protocolFees = (run.totalSlashed * 10) \div 100
         /\ run.newRewards = run.totalSlashed - run.protocolFees
         /\ \A i \in 1..Len(run.rewards) :
               /\ i <= Len(RunWinners)
               /\ run.rewards[i].reward_amount =
                    (run.newRewards * WinnerWeight(RunWinners[i])) \div TotalWinnerWeight
    /\ LET shares == calculateRewards(ExampleUsers, calculateTotalSlashed(ExampleUsers))
       IN Len(shares) = 1 /\ shares[1].reward_amount = 108

----------------------------------------------------------------------------
(* The calculator functions *)

Calculated(poolType) == run.pc = "calculated" /\ run.poolType = poolType

ShareSum == SumSeq([i \in 1..Len(run.rewards) |-> run.rewards[i].reward_amount])

\* pool - floor(pool * 10 / 100)
NetRewardPool(pool) == pool - ((pool * 10) \div 100)

AlarmWinners == SelectSeq(run.users, LAMBDA u : u.snooze_count \in {NULL, 0})
FocusWinners == SelectSeq(run.users, LAMBDA u : u.completion_status)

SharesOfLock(lock) ==
    { i \in 1..Len(run.rewards) : /\ run.rewards[i].address = lock.address
                                  /\ run.rewards[i].session_id = lock.session_id }

FocusWinnerWeight ==
    SumSeq([i \in 1..Len(FocusWinners) |->
              FocusWinners[i].stake_amount * FocusWinners[i].duration])

\* the share of a lock by its own weight
OwnShare(lock) ==
    (NetRewardPool(run.totalPoolReward) * (lock.stake_amount * lock.duration))
        \div FocusWinnerWeight

\* every winning lock has exactly one share, computed from its own weight, and
\* no other lock has one
OneSharePerWinningLock ==
    /\ Len(run.rewards) = Len(FocusWinners)
    /\ \A k \in 1..Len(run.users) :
          LET lock == run.users[k]
          IN IF lock.completion_status
             THEN /\ Cardinality(SharesOfLock(lock)) = 1
                  /\ \A i \in SharesOfLock(lock) :
                        /\ FocusWinnerWeight # 0
                        /\ run.rewards[i].reward_amount = OwnShare(lock)
             ELSE SharesOfLock(lock) = {}

\* C24 as stated: calculateFocusRewards returns exactly one share per winning
\* lock, keyed by address and session and computed from the lock's own weight,
\* and none for the locks that were not completed
C24_OneSharePerWinningLock ==
    Calculated("focus") => OneSharePerWinningLock

\* C24: where there is something to hand out (a winning lock, a pool that is
\* not 0, a total winner weight that is not 0) calculateFocusRewards returns
\* exactly one share per winning lock, keyed by address and session and
\* computed from the lock's own weight, and none for the other locks;
\* otherwise it returns the empty list
C24_OneSharePerWinningLockOfPool ==
    Calculated("focus") =>
        IF Len(FocusWinners) # 0 /\ run.totalPoolReward # 0 /\ FocusWinnerWeight # 0
        THEN OneSharePerWinningLock
        ELSE run.rewards = <<>>

\* two winning locks of one address with different weights, and a lock that
\* was not completed
C24_Witness ==
    /\ Calculated("focus")
    /\ Len(run.users) = 3
    /\ Len(run.rewards) = 2
    /\ run.rewards[1].address = run.rewards[2].address
    /\ run.rewards[1].reward_amount # run.rewards[2].reward_amount
    /\ run.rewards[1].reward_amount > 0
    /\ run.rewards[2].reward_amount > 0

\* the return the penalty table gives a stake
ReturnByTable(stake, level) ==
    CASE level = 0 -> stake
      [] level = 1 -> (stake * 80) \div 100
      [] level = 2 -> (stake * 50) \div 100
      [] level >= 3 -> 0

\* C25: calculateStakeReturn is the stake at level 0, floor(stake*80/100) at
\* level 1, floor(stake*50/100) at level 2 and 0 at every level from 3 on, and
\* never more than the stake
C25_StakeReturnTable ==
    Calculated("alarm") =>
        /\ Len(run.stakeReturns) = Len(run.users)
        /\ \A i \in 1..Len(run.users) :
              /\ run.stakeReturns[i] =
                   ReturnByTable(run.users[i].stake_amount,
                                 IF run.users[i].snooze_count = NULL THEN 0
                                 ELSE run.users[i].snooze_count)
              /\ run.stakeReturns[i] <= run.users[i].stake_amount
              /\ run.stakeReturns[i] >= 0

\* stakes of 7 at the levels 1, 2 and 4: the returns are 5, 3 and 0
C25_Witness ==
    /\ Calculated("alarm")
    /\ Len(run.users) = 3
    /\ \A i \in 1..3 : run.users[i].stake_amount = 7
    /\ run.users[1].snooze_count = 1 /\ run.stakeReturns[1] = 5
    /\ run.users[2].snooze_count = 2 /\ run.stakeReturns[2] = 3
    /\ run.users[3].snooze_count = 4 /\ run.stakeReturns[3] = 0

\* C26: calculateTotalSlashed is the sum over the participants of the stake
\* less its return, is never negative, and is 0 when every participant is at
\* level 0, a missing level counting as 0
C26_TotalSlashedIsSumOfLosses ==
    Calculated("alarm") =>
        /\ run.totalSlashed =
             SumSeq([i \in 1..Len(run.users) |->
                       run.users[i].stake_amount - run.stakeReturns[i]])
        /\ run.totalSlashed >= 0
        /\ (\A i \in 1..Len(run.users) : run.users[i].snooze_count \in {NULL, 0})
              => run.totalSlashed = 0

\* a participant without a level next to a penalised one: only the second loses
C26_Witness ==
    /\ Calculated("alarm")
    /\ Len(run.users) = 2
    /\ run.users[1].snooze_count = NULL /\ run.users[1].stake_amount = 7
    /\ run.users[2].snooze_count = 1 /\ run.users[2].stake_amount = 7
    /\ run.totalSlashed = 2

----------------------------------------------------------------------------
(* The expiry of the vouchers *)

\* the run has prepared its claim records
RecordsPrepared == run.pc \in {"update", "insert", "finish"}

\* the claim records of the run as they were inserted
StoredRecordsOfRun ==
    LET stored == IF run.poolType = "alarm" THEN user_claim_data
                  ELSE user_claim_data_locks
        n == Len(run.claimDataInserts)
    IN IF Len(stored) < n THEN <<>>
       ELSE SubSeq(stored, Len(stored) - n + 1, Len(stored))

\* C27: in one pool run the expiry is computed once as now + 172800, and that
\* value is bound into the voucher of every participant and stored as
\* expiry_time in every claim record of the run
C27_OneExpiryPerRun ==
    /\ run.expiry # 0 => run.expiry = (run.clockMs \div 1000) + 172800
    /\ RecordsPrepared =>
         /\ run.expiry # 0
         /\ Len(run.claimDataInserts) = Len(run.users)
         /\ \A i \in 1..Len(run.claimDataInserts) :
               /\ run.claimDataInserts[i].expiry_time = run.expiry
               /\ run.poolType = "alarm" =>
                    run.claimDataInserts[i].message_hash =
                        createAlarmOutcomeSignature(
                            run.users[i].address, run.users[i].alarm_id,
                            run.users[i].wake_up_time, run.users[i].snooze_count,
                            run.expiry).message_hash
    /\ run.pc = "finish" =>
         /\ StoredRecordsOfRun = run.claimDataInserts
         /\ \A i \in 1..Len(StoredRecordsOfRun) :
               StoredRecordsOfRun[i].expiry_time = run.expiry

\* a run that has stored the claim records of three participants
C27_Witness ==
    /\ run.pc = "finish"
    /\ Len(run.claimDataInserts) = 3
    /\ Len(user_claim_data) >= 3
    /\ \A i \in 1..3 : StoredRecordsOfRun[i].expiry_time = run.expiry
    /\ run.expiry = (run.clockMs \div 1000) + 172800

----------------------------------------------------------------------------
(* The pools handed to the batch drivers *)

\* the finder of a process-all command has returned pools to the loop
PoolsFound(poolType) == batch.pc = "loop" /\ batch.poolType = poolType /\ batch.i = 0

HoursAgo48(clockMs) == (clockMs \div 1000) - 172800

WindowOf(pool) == calculateTimeRange(pool.day, pool.period)

NotOlderThan48h(pools, clockMs) ==
    \A k \in 1..Len(pools) : WindowOf(pools[k]).periodEnd >= HoursAgo48(clockMs)

\* C28: every pool the two finders hand to the batch driver has a window whose
\* end is not earlier than now - 48h
C28_NoPoolOlderThan48h ==
    (PoolsFound("alarm") \/ PoolsFound("focus")) =>
        NotOlderThan48h(batch.pools, batch.clockMs)

\* the pools of the alarm finder are not older than 48 hours
AlarmPoolsRecent ==
    PoolsFound("alarm") => NotOlderThan48h(batch.pools, batch.clockMs)

\* no pool key twice
EachPoolOnce(pools) ==
    \A j, k \in 1..Len(pools) : j # k => pools[j] # pools[k]

\* oldest first: the window starts never decrease along the list
OldestFirst(pools) ==
    \A j, k \in 1..Len(pools) :
        j < k => WindowOf(pools[j]).periodStart <= WindowOf(pools[k]).periodStart

FinderListsOrdered ==
    (PoolsFound("alarm") \/ PoolsFound("focus")) =>
        EachPoolOnce(batch.pools) /\ OldestFirst(batch.pools)

----------------------------------------------------------------------------
(* Pool keys and their windows *)

\* the pool keys of the days up to the day after the timestamp's
KeysAround(day) == [day : 0..(day + 1), period : {0, 1}]

\* two windows share a second
Overlap(w1, w2) == w1.periodStart < w2.periodEnd /\ w2.periodStart < w1.periodEnd

\* C30: the key of a timestamp has period 0 or 1; its window starts at
\* day*86400 + period*43200, is 43200 seconds long and contains the timestamp;
\* the windows of two distinct keys never overlap; and the key of the window
\* start is the same key
C30_KeyAndWindow ==
    /\ run.pc \in {"key", "window"} =>
         /\ run.poolInfo.period \in {0, 1}
         /\ run.poolInfo.day >= 0
    /\ run.pc = "window" =>
         /\ run.timeRange.periodStart = run.poolInfo.day * 86400 + run.poolInfo.period * 43200
         /\ run.timeRange.periodEnd = run.timeRange.periodStart + 43200
         /\ run.timeRange.periodStart <= run.timestamp
         /\ run.timestamp < run.timeRange.periodEnd
         /\ run.poolInfoOfStart = run.poolInfo
         /\ \A key \in KeysAround(run.poolInfo.day) :
               key # run.poolInfo =>
                   ~Overlap(calculateTimeRange(key.day, key.period), run.timeRange)

\* the last second before midnight of day 2: the key is (2, 1) and its window
\* ends where the window of (3, 0) starts
C30_Witness ==
    /\ run.pc = "window"
    /\ run.timestamp = 3 * 86400 - 1
    /\ run.poolInfo = [day |-> 2, period |-> 1]
    /\ run.timeRange = [periodStart |-> 2 * 86400 + 43200, periodEnd |-> 3 * 86400]

----------------------------------------------------------------------------
(* The exit code of the process command *)

\* the process command has exited
Exited == run.exitCode # {}

\* how the invocation went: the arguments were rejected, the run threw, the run
\* stopped at the time buffer check, or the run returned success
ArgumentsRejected ==
    run.returned = {} /\ run.thrown = {} /\ run.aborted = {} /\ trace.phases = <<>>
RunThrew == run.thrown # {} \/ run.aborted # {}
TooEarlySkip ==
    /\ run.returned # {}
    /\ \A result \in run.returned : ~result.success
    /\ trace.phases = <<"CHECK_TIMING">>
ReturnedSuccess == \E result \in run.returned : result.success

\* C31: the process command exits with 0 exactly when the run returned success,
\* with 2 exactly when the run ended as a too-early skip, and with 1 exactly
\* for a fatal error: a thrown error or invalid day/period arguments
C31_ExitCodes ==
    Exited =>
        /\ run.exitCode \in {{0}, {1}, {2}}
        /\ run.exitCode = {0} <=> ReturnedSuccess
        /\ run.exitCode = {2} <=> TooEarlySkip
        /\ run.exitCode = {1} <=> (RunThrew \/ ArgumentsRejected)

----------------------------------------------------------------------------
(* The configuration of the entry points *)

\* an entry point has been invoked
Invoked == runs > 0 \/ batch.pc # "idle"

\* the invocation was aborted with an error: a process command has exited with 1
\* after the catch, a process-all command or the cron handler has ended by throwing
AbortedWithError ==
    \/ run.aborted # {} /\ run.exitCode = {1}
    \/ batch.pc = "ended" /\ batch.thrown # {}

\* nothing was read, published or persisted
NothingTouched ==
    /\ trace.calls = <<>>
    /\ trace.phases = <<>>
    /\ run.users = <<>>
    /\ batch.pools = <<>>
    /\ batch.attempted = <<>>
    /\ chain = InitChain
    /\ user_claim_data = <<>>
    /\ user_claim_data_locks = <<>>
    /\ \A a \in alarms : ~a.claim_ready
    /\ \A l \in focus_locks : ~l.claim_ready

\* C32: under an environment in which a required option is missing or malformed
\* every entry point aborts with an error before any storage or ledger call: no
\* pool is fetched, published or persisted
C32_ConfigBeforeAnyCall ==
    ~env.required =>
        /\ NothingTouched
        /\ Invoked => AbortedWithError

\* a process-all command aborted by the configuration, with unprocessed rows waiting
C32_Witness ==
    /\ ~env.required
    /\ batch.entry = "alarm process-all"
    /\ AbortedWithError
    /\ batch.exitCode = {1}
    /\ Cardinality(alarms) = 2

----------------------------------------------------------------------------
(* Claim material of the flagged records *)

\* no store is in progress: the run has returned or thrown, or none was started
StoreOver == run.pc \in {"idle", "ended"}

HasClaimRow(alarm) ==
    \E k \in 1..Len(user_claim_data) : user_claim_data[k].alarm_id = alarm.id

HasLockClaimRow(lock) ==
    \E k \in 1..Len(user_claim_data_locks) : user_claim_data_locks[k].focus_lock_id = lock.id

\* C33: after a run of storeAlarmResults or storeFocusLockResults, whether it
\* returned or threw, every record marked claim_ready has a claim-data row
C33_FlaggedRecordsHaveClaimData ==
    StoreOver =>
        /\ \A alarm \in alarms : alarm.claim_ready => HasClaimRow(alarm)
        /\ \A lock \in focus_locks : lock.claim_ready => HasLockClaimRow(lock)

----------------------------------------------------------------------------
(* The amounts sent to the ledger *)

\* the transaction of the run, while it is pending
RunTransactions ==
    { chain.pending[i] : i \in { k \in 1..Len(chain.pending) :
                                   chain.pending[k].hash = run.txHash } }

U256Value(parts) == parts.low + parts.high * U128Limit

\* the reward amounts the leaves of the run commit to: one per lock in a focus
\* pool, one per address in an alarm pool
CommittedAmounts ==
    IF run.poolType = "focus"
    THEN [i \in 1..Len(run.users) |->
            LET mine == { k \in 1..Len(run.rewards) :
                            /\ run.rewards[k].address = run.users[i].address
                            /\ run.rewards[k].session_id = run.users[i].session_id }
            IN IF mine = {} THEN 0
               ELSE run.rewards[CHOOSE k \in mine : \A j \in mine : k <= j].reward_amount]
    ELSE [i \in 1..Len(run.leaves) |->
            SumSeq([k \in 1..Len(run.rewards) |->
                      IF run.rewards[k].address = run.leaves[i].address
                      THEN run.rewards[k].reward_amount ELSE 0])]

LeafOfAmount(i) ==
    IF run.poolType = "focus"
    THEN createFocusMerkleLeaf(run.leaves[i].address, run.leaves[i].session_id,
                               CommittedAmounts[i])
    ELSE createMerkleLeaf(run.leaves[i].address, CommittedAmounts[i])

\* C34: in a run that has sent its transaction, the new rewards and the protocol
\* fees sent add up to the slashed total, and the reward amounts committed in
\* the leaves sum to no more than the new rewards sent
C34_PublishedAmountsAddUp ==
    run.pc = "waitForTransaction" =>
        \A tx \in RunTransactions :
            /\ U256Value(tx.newRewards) + U256Value(tx.protocolFees) = run.totalSlashed
            /\ Len(CommittedAmounts) = Len(run.leaves)
            /\ \A i \in 1..Len(run.leaves) : run.leaves[i].hash = LeafOfAmount(i)
            /\ SumSeq(CommittedAmounts) <= U256Value(tx.newRewards)

\* a focus run with two winning locks and slashed stakes has sent its transaction
C34_Witness ==
    /\ run.pc = "waitForTransaction"
    /\ run.poolType = "focus"
    /\ RunTransactions # {}
    /\ run.totalSlashed > 0
    /\ Len(run.rewards) = 2
    /\ SumSeq(CommittedAmounts) > 0

----------------------------------------------------------------------------
(* The reward of an alarm's claim record *)

\* storeAlarmResults has prepared the claim records of an alarm run
AlarmRecordsPrepared == run.poolType = "alarm" /\ run.pc \in {"update", "insert", "finish"}

\* the place of alarm i among the winners of the run, in the order of the users
WinnerRank(i) == Cardinality({ k \in 1..i : run.users[k].snooze_count = 0 })

\* the share calculateRewards returned for alarm i, a winner
OwnAlarmShare(i) ==
    IF run.rewards = <<>> THEN 0 ELSE run.rewards[WinnerRank(i)].reward_amount

\* C35: the claim record prepared for an alarm with snooze_count >= 1 carries
\* reward_amount 0, and the record of an alarm with snooze_count 0 carries that
\* alarm's own share, also when one address owns several alarms of the pool
C35_RecordCarriesOwnShare ==
    AlarmRecordsPrepared =>
        \A i \in 1..Len(run.users) :
            run.claimDataInserts[i].reward_amount =
                IF run.users[i].snooze_count >= 1 THEN 0 ELSE OwnAlarmShare(i)

----------------------------------------------------------------------------
(* The two runs of the cron handler *)

\* processCronPools is the entry point of the invocation
CronInvoked == batch.entry = "processCronPools"

\* the pool run in progress or settled is the run of the cron pool for this type
CronRunIs(poolType) ==
    /\ run.poolType = poolType
    /\ run.day = batch.pools[1].day
    /\ run.period = batch.pools[1].period

\* the result kept for the settled run: a thrown error is a failure, anything else is
\* the success flag the run returned
KeepsRunOutcome(result) ==
    /\ result.success = (run.thrown = {} /\ RunSucceeded)
    /\ run.thrown # {} => result.message # RunMessage

\* the positions of processCronPools: the alarm run comes first, the focus run of the
\* same key follows whatever the alarm run did, and the result adds the two up
CronPositions ==
    CronInvoked =>
        /\ batch.pc = "cronPool" => batch.attempted = <<>> /\ batch.alarm = {}
        /\ batch.pc = "cronAwaitAlarm" =>
              CronRunIs("alarm") /\ batch.attempted = <<batch.pools[1]>>
        /\ batch.pc = "cronPoolDelay" =>
              /\ CronRunIs("alarm")
              /\ \A alarmResult \in batch.alarm : KeepsRunOutcome(alarmResult)
              /\ Cardinality(batch.alarm) = 1
        /\ batch.pc = "cronAwaitFocus" =>
              CronRunIs("focus") /\ batch.attempted = <<batch.pools[1], batch.pools[1]>>
        /\ batch.thrown # {} => batch.attempted = <<>>
        /\ batch.pc = "ended" /\ batch.thrown = {} =>
              /\ CronRunIs("focus")
              /\ \A result \in batch.returned :
                    /\ result.alarm \in batch.alarm
                    /\ KeepsRunOutcome(result.focus)
                    /\ result.success = (result.alarm.success \/ result.focus.success)
              /\ Cardinality(batch.returned) = 1

\* a step of the invocation after the alarm run settled keeps the alarm result, and the
\* only way on from the settled alarm run is the start of the focus run
CronKeepsAlarmResult ==
    CronInvoked /\ batch.pc \in {"cronPoolDelay", "cronAwaitFocus"} =>
        /\ batch'.alarm = batch.alarm
        /\ batch'.pc \in {"cronPoolDelay", "cronAwaitFocus", "ended"}
        /\ batch'.thrown = {}

\* C36: processCronPools attempts the alarm pool first and then the focus pool of the
\* same key; an error thrown by the alarm run becomes a failed alarm result and the
\* focus run still starts; the focus run, whatever it does, leaves the alarm result in
\* place; no error of a pool run makes processCronPools throw; and the overall success
\* is true exactly when one of the two runs succeeded
C36_BothPoolsAttempted == [](CronPositions) /\ [][CronKeepsAlarmResult]_vars

\* the alarm run threw, and the focus run of the same pool was started and settled with
\* an error of its own; both are reported as failed results
C36_Witness ==
    /\ CronInvoked
    /\ batch.pc = "ended"
    /\ CronRunIs("focus")
    /\ run.thrown # {}
    /\ \E result \in batch.returned :
          /\ ~result.alarm.success
          /\ result.alarm.message = "Alarm processing error: Database query failed"
          /\ ~result.success

----------------------------------------------------------------------------
(* The pool of a scheduled run *)

\* the cron handler has picked its pool
PoolPicked == batch.entry = "processCronPools" /\ Len(batch.pools) = 1

\* the clock of the invocation in seconds, and its second of the day
InvocationNow == batch.clockMs \div 1000
SecondOfDay == InvocationNow % SECONDS_PER_DAY

\* the end of the window of the picked pool
PickedPeriodEnd == calculateTimeRange(batch.pools[1].day, batch.pools[1].period).periodEnd

\* the focus run of the picked pool stopped at the time buffer check
StoppedTooEarly ==
    /\ run.pc = "ended"
    /\ \E result \in run.returned : result.message.text = "Too early to process"

\* C37: calculatePoolToProcess returns the pool that ended most recently: before 12:00
\* UTC the second period of the day before, otherwise the first period of the day; the
\* window of that pool has ended and ended less than 43200 seconds ago; and a run
\* without force started 30 minutes or more into the half-day passes the time buffer
\* check
C37_MostRecentlyEndedPool ==
    PoolPicked /\ batch.pc \in {"cronPool", "cronAwaitFocus"} =>
        /\ batch.pools[1] = IF SecondOfDay < SECONDS_PER_PERIOD
                            THEN [day |-> InvocationNow \div SECONDS_PER_DAY - 1, period |-> 1]
                            ELSE [day |-> InvocationNow \div SECONDS_PER_DAY, period |-> 0]
        /\ PickedPeriodEnd <= InvocationNow
        /\ InvocationNow - PickedPeriodEnd < SECONDS_PER_PERIOD
        /\ (/\ batch.pc = "cronAwaitFocus"
            /\ run.poolType = "focus"
            /\ run.clockMs >= batch.clockMs
            /\ SecondOfDay % SECONDS_PER_PERIOD >= TIME_BUFFER_SECONDS)
           => ~StoppedTooEarly

\* a run without force at 00:30:00 UTC sharp: the pool is the second period of the day
\* before and the run goes on to fetch it
C37_Witness ==
    /\ PoolPicked
    /\ batch.pc = "cronAwaitFocus"
    /\ ~batch.force
    /\ SecondOfDay = TIME_BUFFER_SECONDS
    /\ batch.pools[1].period = 1
    /\ run.pc = "fetch"
    /\ run.clockMs = batch.clockMs

----------------------------------------------------------------------------
(* The end of a run that began to publish *)

\* the positions of a run from the publish step on, in the order of the code
PublishPositions == <<"getNonce", "execute", "waitForTransaction", "verifyMerkleRoot",
                      "store", "update", "insert", "finish", "ended">>

PublishRank(pc) == CHOOSE i \in 1..Len(PublishPositions) : PublishPositions[i] = pc

\* the run is between the start of the publish step and its end
Publishing == InSeq(run.pc, PublishPositions) /\ run.pc # "ended"

\* the run has ended: it returned a result or threw
RunTerminated == run.pc = "ended" /\ (run.returned # {}) # (run.thrown # {})

\* a step taken while the run publishes or stores belongs to that run and moves it
\* forward: to a later position, or to the next record of the update loop
PublishMovesForward ==
    Publishing =>
        /\ run' # run
        /\ InSeq(run'.pc, PublishPositions)
        /\ \/ PublishRank(run'.pc) > PublishRank(run.pc)
           \/ run.pc = "update" /\ run'.pc = "update" /\ run'.updated = run.updated + 1
        /\ runs' = runs
        /\ <<run'.poolType, run'.day, run'.period>> = <<run.poolType, run.day, run.period>>

====
